---- MODULE Spec2Model ----
(***************************************************************************)
(* A model of the SEO analysis engine of blogchecker: SEOAnalyzer.analyze  *)
(* (src/src/types/seo.ts) run as a pipeline of stages over a parsed        *)
(* document, together with its text statistics, keyword analysis, meta    *)
(* analysis and score aggregation.                                         *)
(*                                                                         *)
(* Strings are sequences of one-character strings.  JavaScript numbers are *)
(* extended rationals: a finite value n/d, NaN, +Infinity or -Infinity, so *)
(* that a division by zero is visible in the model.                        *)
(***************************************************************************)
EXTENDS Integers, Sequences, FiniteSets, TLC

(***************************************************************************)
(* Bounds of the model.                                                    *)
(***************************************************************************)
MaxTextLen == 4
MaxPhrases == 2
MaxRuns == 2
MaxClock == 1
MaxHeadings == 4
MaxCount == 3
MaxCites == 2
MaxRepeatTextLen == 2
MaxWords == 40
MaxScale == 2
MaxOccurrences == 3
MaxSentences == 31
MaxLongWords == 2
MaxImages == 2
MaxParagraphs == 3
MaxKeywordLen == 2
MaxHaystackLen == 3
MaxFlagWords == 240
MaxFlagOccurrences == 7
MaxLinks == 2
MaxAnchorRuns == 2
MaxCopies == 2
MaxTitleLen == 90
MaxSlugWords == 2
MaxStatements == 2
MaxClicks == 3
MaxPending == 2

(***************************************************************************)
(* JavaScript numbers.                                                     *)
(***************************************************************************)
RECURSIVE Gcd(_, _)
Gcd(a, b) == IF b = 0 THEN a ELSE Gcd(b, a % b)
Abs(n) == IF n < 0 THEN -n ELSE n

\* the finite number n/d (d > 0), in lowest terms
Fin(n, d) == [k |-> "fin", n |-> n \div Gcd(Abs(n), d), d |-> d \div Gcd(Abs(n), d)]
Int2(n) == Fin(n, 1)
NaN == [k |-> "nan", n |-> 0, d |-> 1]
PosInf == [k |-> "inf", n |-> 1, d |-> 1]
NegInf == [k |-> "inf", n |-> -1, d |-> 1]

IsFinite(a) == a.k = "fin"
IsNaN(a) == a.k = "nan"

Sign(n) == IF n > 0 THEN 1 ELSE IF n < 0 THEN -1 ELSE 0

\* a / b for two JavaScript numbers
JsDiv(a, b) ==
  IF IsNaN(a) \/ IsNaN(b) THEN NaN
  ELSE IF a.k = "inf" /\ b.k = "inf" THEN NaN
  ELSE IF a.k = "inf" THEN (IF Sign(b.n) * a.n >= 0 THEN PosInf ELSE NegInf)
  ELSE IF b.k = "inf" THEN Int2(0)
  ELSE IF b.n = 0 THEN (IF a.n = 0 THEN NaN ELSE IF a.n > 0 THEN PosInf ELSE NegInf)
  ELSE IF b.n > 0 THEN Fin(a.n * b.d, a.d * b.n)
  ELSE Fin(-(a.n * b.d), a.d * (-b.n))

\* a * b
JsMul(a, b) ==
  IF IsNaN(a) \/ IsNaN(b) THEN NaN
  ELSE IF a.k = "inf" \/ b.k = "inf" THEN
    (IF Sign(a.n) * Sign(b.n) = 0 THEN NaN
     ELSE IF Sign(a.n) * Sign(b.n) > 0 THEN PosInf ELSE NegInf)
  ELSE Fin(a.n * b.n, a.d * b.d)

\* a + b
JsAdd(a, b) ==
  IF IsNaN(a) \/ IsNaN(b) THEN NaN
  ELSE IF a.k = "inf" /\ b.k = "inf" THEN (IF a.n = b.n THEN a ELSE NaN)
  ELSE IF a.k = "inf" THEN a
  ELSE IF b.k = "inf" THEN b
  ELSE Fin(a.n * b.d + b.n * a.d, a.d * b.d)

JsNeg(a) == IF IsNaN(a) THEN NaN ELSE [a EXCEPT !.n = 0 - a.n]
JsSub(a, b) == JsAdd(a, JsNeg(b))

\* a < b; every comparison with NaN is false
JsLt(a, b) ==
  IF IsNaN(a) \/ IsNaN(b) THEN FALSE
  ELSE IF a.k = "inf" THEN a.n < 0 /\ ~(b.k = "inf" /\ b.n < 0)
  ELSE IF b.k = "inf" THEN b.n > 0
  ELSE a.n * b.d < b.n * a.d

JsGt(a, b) == JsLt(b, a)
JsEq(a, b) ==
  IF IsNaN(a) \/ IsNaN(b) THEN FALSE
  ELSE IF a.k = "inf" \/ b.k = "inf" THEN a.k = b.k /\ a.n = b.n
  ELSE a.n * b.d = b.n * a.d
JsLe(a, b) == JsLt(a, b) \/ JsEq(a, b)
JsGe(a, b) == JsLe(b, a)

\* Math.min and Math.max: NaN if either argument is NaN
MathMin(a, b) == IF IsNaN(a) \/ IsNaN(b) THEN NaN ELSE IF JsLt(b, a) THEN b ELSE a
MathMax(a, b) == IF IsNaN(a) \/ IsNaN(b) THEN NaN ELSE IF JsGt(b, a) THEN b ELSE a

\* floor of n/d for d > 0
FloorDiv(n, d) == IF n >= 0 THEN n \div d ELSE -(((-n) + d - 1) \div d)

\* Math.round: the nearest integer, halves rounded towards +Infinity
MathRound(a) == IF IsFinite(a) THEN Int2(FloorDiv(2 * a.n + a.d, 2 * a.d)) ELSE a

\* a value that is an integer between lo and hi
IsIntegerIn(a, lo, hi) ==
  /\ IsFinite(a)
  /\ a.n % a.d = 0
  /\ a.n >= lo * a.d
  /\ a.n <= hi * a.d

(***************************************************************************)
(* Strings.                                                                *)
(***************************************************************************)
Chars == {"a", " ", ".", "("}
Whitespace == {" "}
SentenceEnd == {".", "!", "?"}

\* the maximal runs of characters of s outside sep, in order
Tokens(s, sep) ==
  LET starts == {i \in 1..Len(s) : s[i] \notin sep /\ (i = 1 \/ s[i - 1] \in sep)}
      start(k) == CHOOSE i \in starts : Cardinality({j \in starts : j < i}) = k - 1
      end(i) == CHOOSE j \in i..Len(s) :
                  /\ \A h \in i..j : s[h] \notin sep
                  /\ j = Len(s) \/ s[j + 1] \in sep
  IN [k \in 1..Cardinality(starts) |-> SubSeq(s, start(k), end(start(k)))]

\* s.split(/[sep]+/): the pieces between maximal runs of separators; a run at
\* either end of s leaves an empty piece there, and the empty string is one piece
SplitRuns(s, sep) ==
  IF s = <<>> THEN <<(<<>>)>>
  ELSE (IF s[1] \in sep THEN <<(<<>>)>> ELSE <<>>)
       \o Tokens(s, sep)
       \o (IF s[Len(s)] \in sep THEN <<(<<>>)>> ELSE <<>>)

\* s.split(c) for a one-character string c: the pieces between the
\* occurrences of c, empty pieces included
SplitChar(s, c) ==
  LET seps == {i \in 1..Len(s) : s[i] = c}
      n == Cardinality(seps)
      pos(k) == IF k = 0 THEN 0
                ELSE IF k = n + 1 THEN Len(s) + 1
                ELSE CHOOSE i \in seps : Cardinality({j \in seps : j < i}) = k - 1
  IN [k \in 1..(n + 1) |-> SubSeq(s, pos(k - 1) + 1, pos(k) - 1)]

\* s.trim().length > 0
TrimNonEmpty(s) == \E i \in 1..Len(s) : s[i] \notin Whitespace

\* s.filter(p) for the predicate "length > 0"
NonEmptyOnly(ss) == SelectSeq(ss, LAMBDA x : Len(x) > 0)

TrimNonEmptyOnly(ss) == SelectSeq(ss, TrimNonEmpty)

\* s.includes(t)
Includes(s, t) ==
  \E i \in 0..(Len(s) - Len(t)) : \A j \in 1..Len(t) : s[i + j] = t[j]

\* s.replace(/\s+/g, '-')
RECURSIVE HyphenateFrom(_, _, _)
HyphenateFrom(s, i, insep) ==
  IF i > Len(s) THEN <<>>
  ELSE IF s[i] \in Whitespace THEN
    (IF insep THEN HyphenateFrom(s, i + 1, TRUE) ELSE <<"-">> \o HyphenateFrom(s, i + 1, TRUE))
  ELSE <<s[i]>> \o HyphenateFrom(s, i + 1, FALSE)
Hyphenate(s) == HyphenateFrom(s, 1, FALSE)

\* s.toLowerCase(), on the upper-case letters the model's documents use
LowerChar(c) == IF c = "A" THEN "a" ELSE IF c = "T" THEN "t" ELSE IF c = "H" THEN "h" ELSE c
Lower(s) == [i \in 1..Len(s) |-> LowerChar(s[i])]

\* s.trim()
RECURSIVE TrimLeft(_)
TrimLeft(s) == IF s # <<>> /\ Head(s) \in Whitespace THEN TrimLeft(Tail(s)) ELSE s
RECURSIVE TrimRight(_)
TrimRight(s) ==
  IF s # <<>> /\ s[Len(s)] \in Whitespace THEN TrimRight(SubSeq(s, 1, Len(s) - 1)) ELSE s
Trim(s) == TrimRight(TrimLeft(s))

\* the concatenation of a list of strings
RECURSIVE Concat(_)
Concat(ss) == IF ss = <<>> THEN <<>> ELSE Head(ss) \o Concat(Tail(ss))

\* an optional argument: undefined, or a string
Undefined == [present |-> FALSE, value |-> <<>>]
Some(s) == [present |-> TRUE, value |-> s]
\* x || '' for an optional string x
OrEmpty(x) == IF x.present THEN x.value ELSE <<>>

(***************************************************************************)
(* countKeywordOccurrences: new RegExp(keyword, 'gi') and text.match.      *)
(* Over the model's characters a pattern is a sequence of literals, of the *)
(* wildcard "." and of "(", which opens a group that nothing closes.       *)
(***************************************************************************)
\* new RegExp(keyword) throws a SyntaxError
RegExpThrows(keyword) == \E i \in 1..Len(keyword) : keyword[i] = "("

PatternMatchesAt(text, keyword, i) ==
  \A j \in 1..Len(keyword) :
    \/ keyword[j] = "."
    \/ LowerChar(keyword[j]) = LowerChar(text[i + j - 1])

\* the matches of a global regex are found left to right, each search starting
\* where the last match ended (one further on after an empty match)
RECURSIVE MatchCountFrom(_, _, _)
MatchCountFrom(text, keyword, i) ==
  LET matches == {j \in i..(Len(text) - Len(keyword) + 1) : PatternMatchesAt(text, keyword, j)}
      first == CHOOSE j \in matches : \A h \in matches : j <= h
  IN IF matches = {} THEN 0
     ELSE 1 + MatchCountFrom(text, keyword, first + (IF Len(keyword) = 0 THEN 1 ELSE Len(keyword)))

\* (text.match(regex) || []).length, for a keyword that compiles
countKeywordOccurrences(text, keyword) == MatchCountFrom(text, keyword, 1)

(***************************************************************************)
(* analyzeKeywords                                                         *)
(***************************************************************************)
FallbackKeyword == <<"c", "o", "n", "t", "e", "n", "t">>

\* phrases.filter(phrase => phrase.length > 3 && phrase.split(' ').length >= 2)
RECURSIVE meaningfulPhrases(_)
meaningfulPhrases(phrases) ==
  IF phrases = <<>> THEN <<>>
  ELSE IF Len(Head(phrases)) > 3 /\ Len(SplitChar(Head(phrases), " ")) >= 2
    THEN <<Head(phrases)>> \o meaningfulPhrases(Tail(phrases))
    ELSE meaningfulPhrases(Tail(phrases))

\* the first extracted phrase is taken whatever its length and word count
primaryKeywordOfFirstPhrase(targetKeyword, phrases) ==
  IF OrEmpty(targetKeyword) # <<>> THEN OrEmpty(targetKeyword)
  ELSE IF phrases # <<>> THEN Head(phrases)
  ELSE FallbackKeyword

\* let primaryKeyword = targetKeyword || ''; if (!primaryKeyword) { ... }
primaryKeywordOf(targetKeyword, phrases) ==
  IF OrEmpty(targetKeyword) # <<>> THEN OrEmpty(targetKeyword)
  ELSE IF meaningfulPhrases(phrases) # <<>> THEN Head(meaningfulPhrases(phrases))
  ELSE FallbackKeyword

\* textContent.split(/\s+/).length
SplitWordCount(textContent) == Len(SplitRuns(textContent, Whitespace))

\* (keywordOccurrences / wordCount) * 100
densityOf(keywordOccurrences, wordCount) ==
  JsMul(JsDiv(Int2(keywordOccurrences), Int2(wordCount)), Int2(100))

\* Math.round(density * 10) / 10
reportedDensityOneDecimal(density) == JsDiv(MathRound(JsMul(density, Int2(10))), Int2(10))

\* Math.round(density * 100) / 100
reportedDensity(density) == JsDiv(MathRound(JsMul(density, Int2(100))), Int2(100))

\* density >= 0.5 && density <= 2.5
naturalIntegrationOf(density) == JsGe(density, Fin(1, 2)) /\ JsLe(density, Fin(5, 2))

\* the alert is raised on the density as it is reported
stuffingAlertOfReported(density) == JsGt(reportedDensity(density), Int2(3))

\* density > 3
stuffingAlertOf(density) == JsGt(density, Int2(3))

(***************************************************************************)
(* The parsed document, as the selectors of the analyzers see it.          *)
(*   nodes    the body's text-bearing elements in document order: a tag    *)
(*            ("p", "h1".."h6", or "span" for other text), the element's   *)
(*            text and whether an <a> lies inside it                       *)
(*   the other fields are the answers of the selectors that the analyzers  *)
(*   only count or test for presence.                                      *)
(***************************************************************************)
HeadingTags == {"h1", "h2", "h3", "h4", "h5", "h6"}

\* parseInt(tagName.substring(1))
HeadingLevel(tag) ==
  CASE tag = "h1" -> 1 [] tag = "h2" -> 2 [] tag = "h3" -> 3
    [] tag = "h4" -> 4 [] tag = "h5" -> 5 [] tag = "h6" -> 6

RECURSIVE SelectTags(_, _)
SelectTags(nodes, tags) ==
  IF nodes = <<>> THEN <<>>
  ELSE IF Head(nodes).tag \in tags THEN <<Head(nodes)>> \o SelectTags(Tail(nodes), tags)
  ELSE SelectTags(Tail(nodes), tags)

\* $('p'), $('h1, h2, h3, h4, h5, h6'), $('h2, h3, h4, h5, h6')
Paragraphs(doc) == SelectTags(doc.nodes, {"p"})
Headings(doc) == SelectTags(doc.nodes, HeadingTags)
Subheadings(doc) == SelectTags(doc.nodes, HeadingTags \ {"h1"})
CountTag(doc, tag) == Len(SelectTags(doc.nodes, {tag}))

\* $(sel).text(): the texts of the selected elements, concatenated
TextOf(nodes) == Concat([i \in 1..Len(nodes) |-> nodes[i].text])
\* $(sel).first().text() and $(sel).last().text()
FirstText(nodes) == IF nodes = <<>> THEN <<>> ELSE nodes[1].text
LastText(nodes) == IF nodes = <<>> THEN <<>> ELSE nodes[Len(nodes)].text

\* $('body').text() || $('*').text()
textContentOf(doc) == TextOf(doc.nodes)

\* $('title, h1').first().text(): the title element comes first in the document
TitleOrH1Text(doc) ==
  IF doc.title.present THEN doc.title.value ELSE FirstText(SelectTags(doc.nodes, {"h1"}))

(***************************************************************************)
(* Text statistics                                                         *)
(***************************************************************************)
Letters == {"a", "b", "c", "d", "e", "f", "g", "h", "i", "j", "k", "l", "m",
            "n", "o", "p", "q", "r", "s", "t", "u", "v", "w", "x", "y", "z"}
Vowels == {"a", "e", "i", "o", "u", "y"}
Digits == {"0", "1", "2", "3", "4", "5", "6", "7", "8", "9"}

\* word.replace(/[^a-z]/g, '')
LettersOnly(w) == SelectSeq(w, LAMBDA c : c \in Letters)

\* (word.match(/[aeiouy]+/g) || []).length: the number of maximal vowel runs
VowelGroups(w, invowel) ==
  Cardinality({i \in 1..Len(w) : w[i] \in Vowels /\ (i = 1 \/ w[i - 1] \notin Vowels)})
    - (IF invowel /\ w # <<>> /\ w[1] \in Vowels THEN 1 ELSE 0)

Max2(a, b) == IF a >= b THEN a ELSE b
Min2(a, b) == IF a <= b THEN a ELSE b

countSyllablesInWord(word) ==
  IF Len(word) <= 3 THEN 1 ELSE Max2(1, VowelGroups(word, FALSE))

RECURSIVE SumSyllables(_)
SumSyllables(ws) ==
  IF ws = <<>> THEN 0
  ELSE countSyllablesInWord(LettersOnly(Head(ws))) + SumSyllables(Tail(ws))

\* countSyllables: over text.toLowerCase().split(/\s+/), empty pieces included
countSyllables(text) == SumSyllables(SplitRuns(Lower(text), Whitespace))

RECURSIVE CountPoly(_)
CountPoly(ws) ==
  IF ws = <<>> THEN 0
  ELSE (IF Len(LettersOnly(Head(ws))) > 0 /\ countSyllablesInWord(LettersOnly(Head(ws))) >= 3
          THEN 1 ELSE 0) + CountPoly(Tail(ws))

countPolysyllables(text) == CountPoly(SplitRuns(Lower(text), Whitespace))

RECURSIVE CountLongWords(_)
CountLongWords(ws) ==
  IF ws = <<>> THEN 0
  ELSE (IF Len(Head(ws)) > 6 THEN 1 ELSE 0) + CountLongWords(Tail(ws))

\* 0.1579 * percentDifficultWords + 0.0496 * avgSentenceLength
calculateDaleChallScore(words, sentenceCount) ==
  JsAdd(JsMul(Fin(1579, 10000),
              JsMul(JsDiv(Int2(CountLongWords(words)), Int2(Len(words))), Int2(100))),
        JsMul(Fin(496, 10000), JsDiv(Int2(Len(words)), Int2(sentenceCount))))

\* for (i = 1; ...) if (headings[i] > headings[i - 1] + 1) return false; return true
RECURSIVE HeadingOrderFrom(_, _)
HeadingOrderFrom(headings, i) ==
  IF i > Len(headings) THEN TRUE
  ELSE IF headings[i] > headings[i - 1] + 1 THEN FALSE
  ELSE HeadingOrderFrom(headings, i + 1)

\* a level may neither rise nor fall by more than one
checkHeadingOrderBothWays(headings) ==
  \A i \in 2..Len(headings) : Abs(headings[i] - headings[i - 1]) <= 1

checkHeadingOrder(headings) == HeadingOrderFrom(headings, 2)

\* the sentences and the words of analyzeContentQuality
SentencesOf(textContent) == TrimNonEmptyOnly(SplitRuns(textContent, SentenceEnd))
WordsOf(textContent) == NonEmptyOnly(SplitRuns(textContent, Whitespace))

\* max(0, min(100, 206.835 - 1.015 * avgSentenceLength - 84.6 * avgSyllablesPerWord))
fleschScoreOf(avgSentenceLength, avgSyllablesPerWord) ==
  MathMax(Int2(0), MathMin(Int2(100),
    JsSub(JsSub(Fin(206835, 1000), JsMul(Fin(1015, 1000), avgSentenceLength)),
          JsMul(Fin(846, 10), avgSyllablesPerWord))))

\* 0.39 * avgSentenceLength + 11.8 * avgSyllablesPerWord - 15.59
fleschKincaidGradeOf(avgSentenceLength, avgSyllablesPerWord) ==
  JsSub(JsAdd(JsMul(Fin(39, 100), avgSentenceLength), JsMul(Fin(118, 10), avgSyllablesPerWord)),
        Fin(1559, 100))

\* Math.round(x * 10) / 10
RoundTenth(x) == JsDiv(MathRound(JsMul(x, Int2(10))), Int2(10))

\* the claim words of findStatementsNeedingCitation
ClaimWords == {<<"r", "e", "s", "e", "a", "r", "c", "h", " ", "s", "h", "o", "w", "s">>,
               <<"s", "t", "u", "d", "i", "e", "s", " ", "i", "n", "d", "i", "c", "a", "t", "e">>,
               <<"a", "c", "c", "o", "r", "d", "i", "n", "g", " ", "t", "o">>,
               <<"e", "x", "p", "e", "r", "t", "s", " ", "s", "a", "y">>,
               <<"d", "a", "t", "a", " ", "r", "e", "v", "e", "a", "l", "s">>}

\* /\d+%|\d+\s*(percent|million|billion|thousand)/.test(text)
StatisticUnits == {<<"p", "e", "r", "c", "e", "n", "t">>,
                   <<"m", "i", "l", "l", "i", "o", "n">>,
                   <<"b", "i", "l", "l", "i", "o", "n">>,
                   <<"t", "h", "o", "u", "s", "a", "n", "d">>}
StartsWithAt(s, t, i) == i + Len(t) - 1 <= Len(s) /\ \A j \in 1..Len(t) : s[i + j - 1] = t[j]
RECURSIVE SkipWhitespace(_, _)
SkipWhitespace(s, i) == IF i <= Len(s) /\ s[i] \in Whitespace THEN SkipWhitespace(s, i + 1) ELSE i
hasStatistic(text) ==
  \E i \in 1..Len(text) :
    /\ text[i] \in Digits
    /\ \/ StartsWithAt(text, <<"%">>, i + 1)
       \/ \E u \in StatisticUnits : StartsWithAt(text, u, SkipWhitespace(text, i + 1))

CountWhere(nodes, P(_)) == Cardinality({i \in 1..Len(nodes) : P(nodes[i])})

\* findMissingCitations(...).length: paragraphs with a statistic and no link, at most 5
findMissingCitationsCount(doc) ==
  LET P(n) == hasStatistic(n.text) /\ ~n.hasAnchor
  IN Min2(5, CountWhere(Paragraphs(doc), P))

\* findStatementsNeedingCitation(...).length: claim paragraphs without a link, at most 5
findStatementsNeedingCitationCount(doc) ==
  LET P(n) == (\E w \in ClaimWords : Includes(Lower(n.text), w)) /\ ~n.hasAnchor
  IN Min2(5, CountWhere(Paragraphs(doc), P))

(***************************************************************************)
(* analyzeKeywords.  The result record carries, next to the fields of      *)
(* KeywordAnalysis, the locals wordCount, keywordOccurrences and the       *)
(* unrounded density under "local".                                        *)
(***************************************************************************)
\* phrases.filter(phrase => phrase !== primaryKeyword).slice(0, 5)
RECURSIVE WithoutPhrase(_, _)
WithoutPhrase(phrases, k) ==
  IF phrases = <<>> THEN <<>>
  ELSE IF Head(phrases) # k THEN <<Head(phrases)>> \o WithoutPhrase(Tail(phrases), k)
  ELSE WithoutPhrase(Tail(phrases), k)
Slice(ss, n) == SubSeq(ss, 1, Min2(n, Len(ss)))

analyzeKeywords(doc, textContent, targetKeyword, url, phrases) ==
  LET primaryKeyword == primaryKeywordOf(targetKeyword, phrases)
      wordCount == SplitWordCount(textContent)
      keywordOccurrences == countKeywordOccurrences(textContent, primaryKeyword)
      density == densityOf(keywordOccurrences, wordCount)
      kw == Lower(primaryKeyword)
  IN [primaryKeyword |-> primaryKeyword,
      secondaryKeywords |-> Slice(WithoutPhrase(phrases, primaryKeyword), 5),
      density |-> reportedDensity(density),
      placement |->
        [inTitle |-> Includes(Lower(TitleOrH1Text(doc)), kw),
         inFirstParagraph |-> Includes(Lower(FirstText(Paragraphs(doc))), kw),
         inHeadings |-> Includes(Lower(TextOf(Headings(doc))), kw),
         inMetaDescription |-> Includes(Lower(OrEmpty(doc.metaDescription)), kw),
         inUrl |-> Includes(Lower(OrEmpty(url)), Hyphenate(kw)),
         naturalIntegration |-> naturalIntegrationOf(density)],
      stuffingAlert |-> stuffingAlertOf(density),
      local |-> [wordCount |-> wordCount,
                 keywordOccurrences |-> keywordOccurrences,
                 density |-> density]]

(***************************************************************************)
(* analyzeLinks.  doc.links are the a[href] elements of the document in    *)
(* document order, each a record                                           *)
(*   href      the value of its href attribute                             *)
(*   domain    what extractDomain makes of the href: the host name the URL *)
(*             parser finds in it, '' when the href does not parse         *)
(***************************************************************************)
HIGH_AUTHORITY_DOMAINS == {<<"w", "i", "k", "i", "p", "e", "d", "i", "a", ".", "o", "r", "g">>,
  <<"g", "o", "o", "g", "l", "e", ".", "c", "o", "m">>,
  <<"a", "p", "p", "l", "e", ".", "c", "o", "m">>,
  <<"m", "i", "c", "r", "o", "s", "o", "f", "t", ".", "c", "o", "m">>,
  <<"a", "m", "a", "z", "o", "n", ".", "c", "o", "m">>,
  <<"f", "a", "c", "e", "b", "o", "o", "k", ".", "c", "o", "m">>,
  <<"t", "w", "i", "t", "t", "e", "r", ".", "c", "o", "m">>,
  <<"l", "i", "n", "k", "e", "d", "i", "n", ".", "c", "o", "m">>,
  <<"g", "i", "t", "h", "u", "b", ".", "c", "o", "m">>,
  <<"s", "t", "a", "c", "k", "o", "v", "e", "r", "f", "l", "o", "w", ".", "c", "o", "m">>,
  <<"m", "e", "d", "i", "u", "m", ".", "c", "o", "m">>,
  <<"f", "o", "r", "b", "e", "s", ".", "c", "o", "m">>,
  <<"n", "y", "t", "i", "m", "e", "s", ".", "c", "o", "m">>,
  <<"b", "b", "c", ".", "c", "o", "m">>,
  <<"c", "n", "n", ".", "c", "o", "m">>,
  <<"r", "e", "u", "t", "e", "r", "s", ".", "c", "o", "m">>,
  <<"w", "s", "j", ".", "c", "o", "m">>,
  <<"t", "e", "c", "h", "c", "r", "u", "n", "c", "h", ".", "c", "o", "m">>,
  <<"m", "a", "s", "h", "a", "b", "l", "e", ".", "c", "o", "m">>,
  <<"w", "i", "r", "e", "d", ".", "c", "o", "m">>,
  <<"h", "a", "r", "v", "a", "r", "d", ".", "e", "d", "u">>,
  <<"s", "t", "a", "n", "f", "o", "r", "d", ".", "e", "d", "u">>,
  <<"m", "i", "t", ".", "e", "d", "u">>,
  <<"n", "i", "h", ".", "g", "o", "v">>,
  <<"c", "d", "c", ".", "g", "o", "v">>,
  <<"g", "o", "v", ".", "u", "k">>}

isInternalLink(href, baseUrl) ==
  \/ StartsWithAt(href, <<"/">>, 1)
  \/ StartsWithAt(href, <<".", "/">>, 1)
  \/ StartsWithAt(href, <<".", ".", "/">>, 1)
  \/ OrEmpty(baseUrl) # <<>> /\ Includes(href, OrEmpty(baseUrl))

isHighAuthorityDomain(domain) ==
  \E authDomain \in HIGH_AUTHORITY_DOMAINS :
    Includes(domain, authDomain) \/ Includes(authDomain, domain)

analyzeLinks(doc, baseUrl) ==
  LET linkData == [i \in 1..Len(doc.links) |->
                     [url |-> doc.links[i].href, position |-> i - 1, domain |-> doc.links[i].domain]]
      kept == SelectSeq(linkData, LAMBDA l : ~(l.url = <<>> \/ StartsWithAt(l.url, <<"#">>, 1)))
      internalLinks == SelectSeq(kept, LAMBDA l : isInternalLink(l.url, baseUrl))
      others == SelectSeq(kept, LAMBDA l : ~isInternalLink(l.url, baseUrl))
      externalLinks == [i \in 1..Len(others) |->
                          [url |-> others[i].url, position |-> others[i].position,
                           domain |-> others[i].domain,
                           isHighAuthority |-> isHighAuthorityDomain(others[i].domain)]]
  IN [internal |->
        [count |-> Len(internalLinks),
         links |-> [i \in 1..Len(internalLinks) |->
                      [url |-> internalLinks[i].url, position |-> internalLinks[i].position]]],
      external |->
        [count |-> Len(externalLinks),
         links |-> externalLinks,
         highAuthorityCount |->
           Cardinality({i \in 1..Len(externalLinks) : externalLinks[i].isHighAuthority}),
         missingCitations |-> findMissingCitationsCount(doc)]]

(***************************************************************************)
(* analyzeMeta and analyzeURL                                              *)
(***************************************************************************)
URL_STOP_WORDS == {<<"a">>, <<"a", "n">>, <<"t", "h", "e">>, <<"a", "n", "d">>, <<"o", "r">>, <<"b", "u", "t">>, <<"i", "n">>, <<"o", "n">>, <<"a", "t">>, <<"t", "o">>, <<"f", "o", "r">>, <<"o", "f">>, <<"w", "i", "t", "h">>, <<"b", "y">>}

Last(ss) == ss[Len(ss)]

analyzeURL(url, keyword) ==
  IF OrEmpty(url) = <<>> THEN
    [isSeoFriendly |-> FALSE, hasKeyword |-> FALSE, length |-> 0, hasStopWords |-> FALSE]
  ELSE
    LET urlPath == Last(SplitChar(url.value, "/"))
        hasStopWords == \E word \in URL_STOP_WORDS : Includes(urlPath, word)
    IN [isSeoFriendly |-> /\ Len(urlPath) < 100
                          /\ ~hasStopWords
                          /\ ~Includes(urlPath, <<"?">>)
                          /\ ~Includes(urlPath, <<"&">>),
        hasKeyword |-> Includes(Lower(urlPath), Hyphenate(Lower(keyword))),
        length |-> Len(urlPath),
        hasStopWords |-> hasStopWords]

\* the first index (from 0) at which t occurs in s
IndexOf(s, t) ==
  CHOOSE i \in 0..Len(s) :
    /\ \A j \in 1..Len(t) : i + j <= Len(s) /\ s[i + j] = t[j]
    /\ \A h \in 0..(i - 1) : ~(\A j \in 1..Len(t) : h + j <= Len(s) /\ s[h + j] = t[j])

\* the largest power of two that is at most x, for x >= 1
RECURSIVE PowerOfTwoBelow(_)
PowerOfTwoBelow(x) == IF x < 2 THEN 1 ELSE 2 * PowerOfTwoBelow(x \div 2)

\* keywordIndex > titleLength * 0.7 in double arithmetic.  The double 0.7 lies
\* 2^-52 / 5 below 7/10, so the product is below 7n/10; it can differ from it
\* across an integer only when 7n/10 is the integer 7m (n = 10m), and then it
\* rounds to the double before 7m exactly when m * 2^-51 exceeds half the
\* spacing of the doubles below 7m, that is when 4m > 2^floor(log2(7m)).
GtSevenTenths(keywordIndex, titleLength) ==
  \/ 10 * keywordIndex > 7 * titleLength
  \/ /\ 10 * keywordIndex = 7 * titleLength
     /\ titleLength > 0
     /\ PowerOfTwoBelow(7 * (titleLength \div 10)) < 4 * (titleLength \div 10)

\* keywordIndex < titleLength * 0.3 in double arithmetic: the double 0.3 lies
\* below 3/10 and the product never rounds above 3n/10 when that is an integer
LtThreeTenths(keywordIndex, titleLength) == 10 * keywordIndex < 3 * titleLength

keywordPositionOf(titleLower, keywordLower) ==
  IF Includes(titleLower, keywordLower) THEN
    LET keywordIndex == IndexOf(titleLower, keywordLower)
        titleLength == Len(titleLower)
    IN IF LtThreeTenths(keywordIndex, titleLength) THEN "beginning"
       ELSE IF GtSevenTenths(keywordIndex, titleLength) THEN "end"
       ELSE "middle"
  ELSE "none"

(* The JSON-LD script, $('script[type="application/ld+json"]').html():       *)
(*   "none"     no such script: html() is null                              *)
(*   "empty"    a script with empty content                                 *)
(*   "invalid"  content that JSON.parse rejects                             *)
(*   "null"     the JSON text null: reading schema['@type'] throws          *)
(*   "object"   a JSON value without "@type"                                *)
(*   "typed"    a JSON object with an "@type"                               *)
SchemaScripts == {"none", "empty", "invalid", "null", "object", "typed"}
SchemaTypeName == <<"A", "r", "t", "i", "c", "l", "e">>
NoType == <<>>
FixInvalidSchema == "Fix invalid JSON-LD schema markup"
AddSchema == "Add schema markup for better search engine understanding"

\* the catch block records nothing
schemaMarkupOfSilentCatch(schemaScript) ==
  IF schemaScript \in {"none", "empty"} THEN
    [present |-> FALSE, type |-> NoType, recommendations |-> <<AddSchema>>]
  ELSE IF schemaScript \in {"invalid", "null"} THEN
    [present |-> FALSE, type |-> NoType, recommendations |-> <<>>]
  ELSE
    [present |-> TRUE,
     type |-> IF schemaScript = "typed" THEN SchemaTypeName ELSE NoType,
     recommendations |-> <<>>]

schemaMarkupOf(schemaScript) ==
  IF schemaScript \in {"none", "empty"} THEN
    [present |-> FALSE, type |-> NoType, recommendations |-> <<AddSchema>>]
  ELSE IF schemaScript \in {"invalid", "null"} THEN
    [present |-> FALSE, type |-> NoType, recommendations |-> <<FixInvalidSchema>>]
  ELSE
    [present |-> TRUE,
     type |-> IF schemaScript = "typed" THEN SchemaTypeName ELSE NoType,
     recommendations |-> <<>>]

analyzeMeta(doc, primaryKeyword, url) ==
  LET title == OrEmpty(doc.title)
      metaDescription == OrEmpty(doc.metaDescription)
      titleLower == Lower(title)
      keywordLower == Lower(primaryKeyword)
      h1Count == CountTag(doc, "h1")
      h2Count == CountTag(doc, "h2")
  IN [title |-> [present |-> Len(title) > 0,
                 length |-> Len(title),
                 hasKeyword |-> Includes(titleLower, keywordLower),
                 keywordPosition |-> keywordPositionOf(titleLower, keywordLower)],
      description |-> [present |-> Len(metaDescription) > 0,
                       length |-> Len(metaDescription),
                       hasKeyword |-> Includes(Lower(metaDescription), keywordLower)],
      url |-> analyzeURL(url, primaryKeyword),
      canonicalTag |-> doc.canonical,
      schemaMarkup |-> schemaMarkupOf(doc.schemaScript),
      headingStructure |-> [h1Count |-> h1Count,
                            h2Count |-> h2Count,
                            h3Count |-> CountTag(doc, "h3"),
                            properHierarchy |-> h1Count = 1 /\ h2Count > 0,
                            keywordsInHeadings |->
                              Includes(Lower(TextOf(Headings(doc))), keywordLower)]]

(***************************************************************************)
(* analyzeContentQuality                                                   *)
(***************************************************************************)
\* base 50, lists, subheadings, bold, italics, walls of text; clamped to [0,100]
calculateScannabilityScore(paragraphs, lists, subheadings, bolding, italics, wallsOfText) ==
  MathMax(Int2(0), MathMin(Int2(100),
    JsSub(JsAdd(JsAdd(JsAdd(JsAdd(Int2(50), Int2(Min2(25, lists * 5))),
                            Int2(Min2(20, subheadings * 2))),
                      Int2(Min2(10, bolding))),
                MathMin(Int2(5), Fin(italics, 2))),
          Int2(wallsOfText * 10))))

\* the formula is applied only to more than 30 sentences
smogIndexOfAboveThirty(textContent, sentenceCount) ==
  IF sentenceCount > 30
    THEN [k |-> "smog", n |-> countPolysyllables(textContent), d |-> sentenceCount]
    ELSE Int2(0)

\* sentences.length >= 30 ? 1.0430 * Math.sqrt(polysyllables * (30 / sentences.length)) + 3.1291 : 0
\* (the square root is kept symbolic)
smogIndexOf(textContent, sentenceCount) ==
  IF sentenceCount >= 30
    THEN [k |-> "smog", n |-> countPolysyllables(textContent), d |-> sentenceCount]
    ELSE Int2(0)

analyzeContentQuality(textContent, doc) ==
  LET sentences == SentencesOf(textContent)
      words == WordsOf(textContent)
      paragraphs == Len(Paragraphs(doc))
      avgSentenceLength == JsDiv(Int2(Len(words)), Int2(Len(sentences)))
      avgParagraphLength == JsDiv(Int2(Len(words)), Int2(paragraphs))
      syllableCount == countSyllables(textContent)
      avgSyllablesPerWord == JsDiv(Int2(syllableCount), Int2(Len(words)))
      fleschScore == fleschScoreOf(avgSentenceLength, avgSyllablesPerWord)
      fleschKincaidGrade == fleschKincaidGradeOf(avgSentenceLength, avgSyllablesPerWord)
      smogIndex == smogIndexOf(textContent, Len(sentences))
      daleChallScore == calculateDaleChallScore(words, Len(sentences))
      listCount == doc.lists
      subheadingCount == Len(Subheadings(doc))
      plen(n) == SplitWordCount(n.text)
      short(n) == plen(n) <= 50
      long(n) == plen(n) > 150
      wall(n) == plen(n) > 300
      wallsOfText == CountWhere(Paragraphs(doc), wall)
      h1Count == CountTag(doc, "h1")
      h2Count == CountTag(doc, "h2")
      headings == [i \in 1..Len(Headings(doc)) |-> HeadingLevel(Headings(doc)[i].tag)]
      wordCount == Len(words)
  IN [readability |->
        [score |-> MathRound(fleschScore),
         avgSentenceLength |-> MathRound(avgSentenceLength),
         avgParagraphLength |-> MathRound(avgParagraphLength),
         fleschScore |-> MathRound(fleschScore),
         fleschKincaidGrade |-> RoundTenth(fleschKincaidGrade),
         smogIndex |-> IF IsFinite(smogIndex) THEN RoundTenth(smogIndex) ELSE smogIndex,
         daleChallScore |-> RoundTenth(daleChallScore)],
      structure |->
        [hasIntroduction |-> Len(FirstText(Paragraphs(doc))) > 100,
         hasConclusion |-> Len(LastText(Paragraphs(doc))) > 100,
         paragraphCount |-> paragraphs,
         listCount |-> listCount,
         subheadingCount |-> subheadingCount,
         shortParagraphs |-> CountWhere(Paragraphs(doc), short),
         longParagraphs |-> CountWhere(Paragraphs(doc), long),
         wallsOfText |-> wallsOfText,
         scannabilityScore |->
           calculateScannabilityScore(paragraphs, listCount, subheadingCount,
                                      doc.bold, doc.italics, wallsOfText),
         headingHierarchy |->
           [h1Count |-> h1Count,
            h2Count |-> h2Count,
            h3Count |-> CountTag(doc, "h3"),
            properOrder |-> checkHeadingOrder(headings),
            logicalStructure |-> h1Count = 1 /\ h2Count > 0]],
      citations |->
        [quotesWithAttribution |-> doc.quoteCites,
         totalQuotes |-> doc.quotes,
         missingCitations |-> findStatementsNeedingCitationCount(doc)],
      comprehensiveness |->
        [wordCount |-> wordCount,
         topicCoverage |-> IF wordCount >= 2000 THEN "comprehensive"
                           ELSE IF wordCount >= 1000 THEN "moderate" ELSE "basic"],
      visualElements |->
        [imageCount |-> Len(doc.images),
         listsCount |-> doc.lists,
         boldingUsage |-> doc.bold,
         italicsUsage |-> doc.italics]]

(***************************************************************************)
(* analyzeImagesAndVideos, analyzeTechnicalSEO, analyzeAIOptimization.     *)
(* An image is a record: alt (the alt attribute, Undefined when the img has *)
(* none), optimizedName (file name longer than 10, not starting with       *)
(* "img", no underscore), large (src contains .png or .bmp), original (src *)
(* contains "original" or "photo").                                        *)
(***************************************************************************)
\* an image is missing its alt text only when it has no alt attribute
analyzeImagesAndVideosByAttribute(doc) ==
  LET alt(i) == i.alt.present /\ Len(Trim(i.alt.value)) > 0
      none(i) == ~i.alt.present
      opt(i) == i.optimizedName
      big(i) == i.large
  IN [images |-> [count |-> Len(doc.images),
                  withAltText |-> CountWhere(doc.images, alt),
                  missingAltText |-> CountWhere(doc.images, none),
                  optimizedFileNames |-> CountWhere(doc.images, opt),
                  largeFileSize |-> CountWhere(doc.images, big)]]

analyzeImagesAndVideos(doc) ==
  LET alt(i) == i.alt.present /\ Len(Trim(i.alt.value)) > 0
      opt(i) == i.optimizedName
      big(i) == i.large
      withAltText == CountWhere(doc.images, alt)
  IN [images |-> [count |-> Len(doc.images),
                  withAltText |-> withAltText,
                  missingAltText |-> Len(doc.images) - withAltText,
                  optimizedFileNames |-> CountWhere(doc.images, opt),
                  largeFileSize |-> CountWhere(doc.images, big)]]

estimatedLoadTimeOf(imageCount, cssLinks, scripts) ==
  IF imageCount > 20 \/ cssLinks > 10 \/ scripts > 15 THEN "slow"
  ELSE IF imageCount > 10 \/ cssLinks > 5 \/ scripts > 8 THEN "moderate"
  ELSE "fast"

analyzeTechnicalSEO(doc) ==
  LET orig(i) == i.original
  IN [mobileOptimization |-> [isResponsive |-> doc.viewport, viewportMeta |-> doc.viewport],
      pageSpeed |->
        [estimatedLoadTime |-> estimatedLoadTimeOf(Len(doc.images), doc.stylesheets, doc.scripts),
         imageOptimization |-> Len(doc.images) < 15,
         cssOptimization |-> doc.stylesheets < 8],
      eeat |-> [authorBio |-> doc.authorBio,
                expertQuotes |-> doc.quoteCites,
                originalPhotos |-> CountWhere(doc.images, orig),
                authoritySignals |-> doc.authoritySignals]]

UpperCase == {"A", "T"}
\* /^[A-Z].*\.$/ and the patterns /^The.*\.$/ ... that it subsumes
isDeclarative(sentence) ==
  /\ Len(sentence) >= 2
  /\ sentence[1] \in UpperCase
  /\ sentence[Len(sentence)] = "."

analyzeAIOptimization(doc, textContent) ==
  LET sentences == SentencesOf(textContent)
      firstParagraph == FirstText(Paragraphs(doc))
      faqStructure == doc.faq
      howToStructure ==
        /\ doc.steps
        /\ \/ Includes(Lower(textContent), <<"h", "o", "w", " ", "t", "o">>)
           \/ Includes(Lower(textContent), <<"s", "t", "e", "p">>)
  IN [aiVisibility |->
        [declarativeSentences |->
           Cardinality({i \in 1..Len(sentences) : isDeclarative(Trim(sentences[i]))}),
         keyPointsUpfront |->
           /\ Len(firstParagraph) > 50
           /\ \/ Includes(firstParagraph, <<":">>)
              \/ Includes(firstParagraph, <<"1", ".">>),
         comprehensiveTopicCoverage |->
           Len(textContent) > 3000 /\ CountTag(doc, "h2") + CountTag(doc, "h3") >= 5],
      featuredSnippets |->
        [optimizedForSnippets |-> faqStructure \/ howToStructure,
         faqStructure |-> faqStructure,
         howToStructure |-> howToStructure]]

(***************************************************************************)
(* calculateScore                                                          *)
(***************************************************************************)
B(cond, points) == IF cond THEN points ELSE 0

keywordScoreOf(keywords) ==
  Int2(B(keywords.primaryKeyword # <<>>, 20)
       + B(keywords.placement.inTitle, 25)
       + B(keywords.placement.inFirstParagraph, 15)
       + B(keywords.placement.inHeadings, 15)
       + B(JsGt(keywords.density, Fin(1, 2)) /\ JsLt(keywords.density, Int2(3)), 15)
       + B(~keywords.stuffingAlert, 10))

linkScoreOf(links) ==
  Int2(Min2(40, links.internal.count * 5)
       + Min2(30, links.external.highAuthorityCount * 10)
       + Min2(30, (links.external.count - links.external.missingCitations) * 5))

metaScoreOf(meta) ==
  Int2(B(meta.title.present /\ meta.title.hasKeyword, 25)
       + B(meta.description.present /\ meta.description.hasKeyword, 25)
       + B(meta.canonicalTag, 15)
       + B(meta.schemaMarkup.present, 20)
       + B(meta.headingStructure.properHierarchy, 15))

contentScoreOf(content) ==
  JsAdd(MathMin(Int2(40), JsMul(content.readability.score, Fin(4, 10))),
        Int2(B(content.structure.hasIntroduction, 15)
             + B(content.structure.hasConclusion, 15)
             + Min2(20, content.structure.listCount * 5)
             + Min2(10, content.structure.subheadingCount * 2)))

citationScoreOf(content) ==
  JsAdd(IF content.citations.totalQuotes > 0
          THEN JsMul(JsDiv(Int2(content.citations.quotesWithAttribution),
                           Int2(content.citations.totalQuotes)), Int2(50))
          ELSE Int2(0),
        Int2(Max2(0, 50 - content.citations.missingCitations * 10)))

imageScoreOf(images) ==
  IF images.images.count > 0
    THEN JsAdd(JsMul(JsDiv(Int2(images.images.withAltText), Int2(images.images.count)), Int2(40)),
               Int2(Min2(30, images.images.optimizedFileNames * 5)
                    + Max2(0, 30 - images.images.largeFileSize * 10)))
    ELSE Int2(0)

technicalScoreOfWithQuotes(technical) ==
  Int2(B(technical.mobileOptimization.isResponsive, 25)
       + B(technical.mobileOptimization.viewportMeta, 15)
       + (IF technical.pageSpeed.estimatedLoadTime = "fast" THEN 30
          ELSE IF technical.pageSpeed.estimatedLoadTime = "moderate" THEN 20 ELSE 0)
       + B(technical.eeat.authorBio, 15)
       + Min2(15, (technical.eeat.authoritySignals + technical.eeat.expertQuotes) * 5))

technicalScoreOf(technical) ==
  Int2(B(technical.mobileOptimization.isResponsive, 25)
       + B(technical.mobileOptimization.viewportMeta, 15)
       + (IF technical.pageSpeed.estimatedLoadTime = "fast" THEN 30
          ELSE IF technical.pageSpeed.estimatedLoadTime = "moderate" THEN 20 ELSE 0)
       + B(technical.eeat.authorBio, 15)
       + Min2(15, technical.eeat.authoritySignals * 5))

aiScoreOf(aiOptimization) ==
  Int2(B(aiOptimization.aiVisibility.keyPointsUpfront, 25)
       + B(aiOptimization.aiVisibility.comprehensiveTopicCoverage, 25)
       + Min2(25, aiOptimization.aiVisibility.declarativeSentences * 2)
       + B(aiOptimization.featuredSnippets.optimizedForSnippets, 25))

eeatScoreOf(technical) ==
  Int2(B(technical.eeat.authorBio, 25)
       + Min2(25, technical.eeat.expertQuotes * 5)
       + Min2(25, technical.eeat.originalPhotos * 3)
       + Min2(25, technical.eeat.authoritySignals * 5))

\* Math.round((keywordScore + linkScore + metaScore) / 3)
seoScoreOf(keywordScore, linkScore, metaScore) ==
  MathRound(JsDiv(JsAdd(JsAdd(keywordScore, linkScore), metaScore), Int2(3)))

\* the citation sub-score is rounded before the mean is taken
authorityScoreOfRoundedParts(linkScore, citationScore) ==
  MathRound(JsDiv(JsAdd(linkScore, MathRound(citationScore)), Int2(2)))

\* Math.round((linkScore + citationScore) / 2)
authorityScoreOf(linkScore, citationScore) ==
  MathRound(JsDiv(JsAdd(linkScore, citationScore), Int2(2)))

\* Math.round(seo * 0.25 + readability * 0.2 + authority * 0.2 + technical * 0.2 + ai * 0.15)
overallScoreOf(seoScore, readabilityScore, authorityScore, technicalSEOScore, aiOptimizationScore) ==
  MathRound(JsAdd(JsAdd(JsAdd(JsAdd(JsMul(seoScore, Fin(25, 100)),
                                    JsMul(readabilityScore, Fin(20, 100))),
                              JsMul(authorityScore, Fin(20, 100))),
                        JsMul(technicalSEOScore, Fin(20, 100))),
                  JsMul(aiOptimizationScore, Fin(15, 100))))

calculateScore(keywords, links, meta, content, anchorText, images, technical, aiOptimization) ==
  LET keywordScore == keywordScoreOf(keywords)
      linkScore == linkScoreOf(links)
      metaScore == metaScoreOf(meta)
      contentScore == contentScoreOf(content)
      citationScore == citationScoreOf(content)
      imageScore == imageScoreOf(images)
      technicalScore == technicalScoreOf(technical)
      aiScore == aiScoreOf(aiOptimization)
      eeatScore == eeatScoreOf(technical)
      seoScore == seoScoreOf(keywordScore, linkScore, metaScore)
      readabilityScore == MathRound(contentScore)
      authorityScore == authorityScoreOf(linkScore, citationScore)
      technicalSEOScore == MathRound(technicalScore)
      aiOptimizationScore == MathRound(aiScore)
  IN [overall |-> overallScoreOf(seoScore, readabilityScore, authorityScore,
                                 technicalSEOScore, aiOptimizationScore),
      seo |-> seoScore,
      readability |-> readabilityScore,
      authority |-> authorityScore,
      technical |-> technicalSEOScore,
      aiOptimization |-> aiOptimizationScore,
      breakdown |-> [keywords |-> MathRound(keywordScore),
                     links |-> MathRound(linkScore),
                     meta |-> MathRound(metaScore),
                     content |-> MathRound(contentScore),
                     citations |-> MathRound(citationScore),
                     images |-> MathRound(imageScore),
                     technical |-> MathRound(technicalScore),
                     eeat |-> MathRound(eeatScore),
                     aiReadiness |-> MathRound(aiScore)],
      raw |-> [keywords |-> keywordScore, links |-> linkScore, meta |-> metaScore,
               content |-> contentScore, citations |-> citationScore,
               technical |-> technicalScore, aiReadiness |-> aiScore]]

(***************************************************************************)
(* analyzeContentDetails: the paragraphs worth a detailed look and the     *)
(* time stamp of the analysis.                                             *)
(***************************************************************************)
\* the index counts only the paragraphs of its own text
paragraphDetailAmongAlike(nodes, i, primaryKeyword) ==
  LET paragraphText == Trim(nodes[i].text)
      lower == Lower(paragraphText)
  IN [index |-> Cardinality({h \in 1..(i - 1) : nodes[h].text = nodes[i].text}),
      wordCount |-> SplitWordCount(paragraphText),
      hasKeyword |-> Includes(lower, Lower(primaryKeyword)),
      externalOpportunity |->
        Includes(lower, <<"r", "e", "s", "e", "a", "r", "c", "h">>) \/ Includes(lower, <<"s", "t", "u", "d", "y">>),
      internalOpportunity |->
        Includes(lower, <<"g", "u", "i", "d", "e">>) \/ Includes(lower, <<"t", "u", "t", "o", "r", "i", "a", "l">>)]

paragraphDetail(nodes, i, primaryKeyword) ==
  LET paragraphText == Trim(nodes[i].text)
      lower == Lower(paragraphText)
  IN [index |-> i - 1,
      wordCount |-> SplitWordCount(paragraphText),
      hasKeyword |-> Includes(lower, Lower(primaryKeyword)),
      externalOpportunity |->
        Includes(lower, <<"r", "e", "s", "e", "a", "r", "c", "h">>) \/ Includes(lower, <<"s", "t", "u", "d", "y">>),
      internalOpportunity |->
        Includes(lower, <<"g", "u", "i", "d", "e">>) \/ Includes(lower, <<"t", "u", "t", "o", "r", "i", "a", "l">>)]

RECURSIVE DetailsFrom(_, _, _)
DetailsFrom(nodes, i, primaryKeyword) ==
  IF i > Len(nodes) THEN <<>>
  ELSE IF Len(Trim(nodes[i].text)) > 20
    THEN <<paragraphDetail(nodes, i, primaryKeyword)>> \o DetailsFrom(nodes, i + 1, primaryKeyword)
    ELSE DetailsFrom(nodes, i + 1, primaryKeyword)

\* the confidence decays with the time of analysis
analyzeContentDetailsAged(doc, textContent, primaryKeyword, date) ==
  [paragraphs |-> Slice(DetailsFrom(Paragraphs(doc), 1, primaryKeyword), 10),
   realTimeValidation |-> [isAnalyzing |-> FALSE,
                           dataSource |-> "live-analysis",
                           lastAnalyzed |-> date,
                           confidence |-> 95 - date]]

analyzeContentDetails(doc, textContent, primaryKeyword, date) ==
  [paragraphs |-> Slice(DetailsFrom(Paragraphs(doc), 1, primaryKeyword), 10),
   realTimeValidation |-> [isAnalyzing |-> FALSE,
                           dataSource |-> "live-analysis",
                           lastAnalyzed |-> date,
                           confidence |-> 95]]

(***************************************************************************)
(* The content metrics handed to the SERP comparison, analyzeSERP,         *)
(* generateKeywordIdeas and analyzeTitle.                                  *)
(***************************************************************************)
yourContentDataOf(doc, textContent, keywords, content) ==
  [wordCount |-> SplitWordCount(textContent),
   imageCount |-> Len(doc.images),
   headingCount |-> Len(Headings(doc)),
   keywordDensity |->
     JsMul(JsDiv(Int2(countKeywordOccurrences(textContent, keywords.primaryKeyword)),
                 Int2(SplitWordCount(textContent))), Int2(100)),
   readabilityScore |-> content.readability.fleschScore]

analyzeSERP(keyword, yourContent) == [keyword |-> keyword, yourContent |-> yourContent]

generateKeywordIdeas(keyword) == [baseKeyword |-> Lower(keyword)]

analyzeTitle(title, keyword) ==
  IF title = <<>> THEN [characters |-> 0, hasKeyword |-> FALSE, keyword |-> keyword]
  ELSE [characters |-> Len(title),
        hasKeyword |-> Includes(Lower(title), Lower(keyword)),
        keyword |-> keyword]

(***************************************************************************)
(* generateEnhancedRecommendations                                         *)
(***************************************************************************)
Rec(type, title, where, keyword) ==
  [type |-> type, title |-> title, whereToImplement |-> where, keyword |-> keyword]

RECURSIVE ExternalOpportunities(_)
ExternalOpportunities(ps) ==
  IF ps = <<>> THEN <<>>
  ELSE IF Head(ps).externalOpportunity THEN <<Head(ps)>> \o ExternalOpportunities(Tail(ps))
  ELSE ExternalOpportunities(Tail(ps))

\* the recommendations pushed, in order, before the list is cut
emittedRecommendations(keywords, links, meta, content, anchorText, images, technical, aiOptimization, contentDetails) ==
  LET k == keywords.primaryKeyword
      missing == IF k = <<>>
                   THEN <<Rec("critical", "Missing Primary Keyword", <<"strategy">>, k)>>
                   ELSE <<>>
      stuffing == IF keywords.stuffingAlert
                    THEN <<Rec("critical", "Keyword Stuffing Detected", <<"content">>, k)>>
                    ELSE <<>>
      title == IF ~meta.title.present \/ ~meta.title.hasKeyword
                 THEN <<Rec("important", "Optimize Page Title", <<"title">>, k)>>
                 ELSE <<>>
      intro == IF contentDetails.paragraphs # <<>> /\ ~contentDetails.paragraphs[1].hasKeyword
                 THEN <<Rec("important", "Add Keyword to Introduction", <<"first paragraph">>, k)>>
                 ELSE <<>>
      opportunities == Slice(ExternalOpportunities(contentDetails.paragraphs), 3)
      linking == IF links.external.highAuthorityCount < 2
                   THEN [i \in 1..Len(opportunities) |->
                           Rec("important", "Add External Link in Paragraph",
                               <<"paragraph", opportunities[i].index + 1>>, k)]
                   ELSE <<>>
  IN missing \o stuffing \o title \o intro \o linking

\* only the top three recommendations are returned
generateEnhancedRecommendationsTopThree(keywords, links, meta, content, anchorText, images, technical, aiOptimization, contentDetails) ==
  Slice(emittedRecommendations(keywords, links, meta, content, anchorText, images,
                               technical, aiOptimization, contentDetails), 3)

\* return recommendations.slice(0, 12)
generateEnhancedRecommendations(keywords, links, meta, content, anchorText, images, technical, aiOptimization, contentDetails) ==
  Slice(emittedRecommendations(keywords, links, meta, content, anchorText, images,
                               technical, aiOptimization, contentDetails), 12)

(***************************************************************************)
(* generateRecommendations, the generator analyze called before            *)
(* generateEnhancedRecommendations replaced it; no method calls it.         *)
(***************************************************************************)
NoPlace == <<>>

generateRecommendations(keywords, links, meta, content, anchorText, images, technical, aiOptimization) ==
  LET k == keywords.primaryKeyword
      when(cond, type, title) == IF cond THEN <<Rec(type, title, NoPlace, k)>> ELSE <<>>
  IN when(k = <<>>, "critical", "Missing Primary Keyword")
     \o when(keywords.stuffingAlert, "critical", "Keyword Stuffing Detected")
     \o when(~meta.title.present \/ ~meta.title.hasKeyword, "important", "Optimize Page Title")
     \o when(links.external.highAuthorityCount < 2, "important", "Add High-Authority Links")
     \o when(JsLt(content.readability.fleschScore, Int2(60)), "suggestion", "Improve Readability")
     \o when(~meta.url.isSeoFriendly, "important", "Optimize URL Structure")
     \o when(images.images.missingAltText > 0, "important", "Add Alt Text to Images")
     \o when(~technical.mobileOptimization.isResponsive, "critical", "Mobile Optimization Required")
     \o when(~aiOptimization.aiVisibility.keyPointsUpfront, "suggestion", "Optimize for AI Search")
     \o when(~technical.eeat.authorBio, "important", "Add Author Bio for E-E-A-T")
     \o when(content.comprehensiveness.wordCount < 1000, "suggestion", "Expand Content Length")

(***************************************************************************)
(* The state: one SEOAnalyzer, called through analyze.                     *)
(*   input     the argument {content, url, targetKeyword} of the calls     *)
(*   phrases   what the phrase extractor returns for the text of content   *)
(*   maxCalls  how many calls the caller makes                             *)
(*   pc        the stage the running call is at ("idle" between calls)     *)
(*   now       the clock new Date() reads                                  *)
(*   cur       the results of the stages the running call has finished     *)
(*   outcomes  what the finished calls returned or threw, in order         *)
(*   call      a direct call of one of the pure helpers, with its result   *)
(***************************************************************************)
VARIABLES input, phrases, maxCalls, pc, now, cur, outcomes, call, page

vars == <<input, phrases, maxCalls, pc, now, cur, outcomes, call, page>>

Null == [null |-> TRUE]
NoCall == [fn |-> "none"]
\* the page component is not mounted
NoPage == [mounted |-> FALSE]

Fresh ==
  [textContent |-> Null, keywords |-> Null, links |-> Null, meta |-> Null,
   content |-> Null, images |-> Null, technical |-> Null, aiOptimization |-> Null,
   contentDetails |-> Null, yourContentData |-> Null, serp |-> Null,
   keywordIdeas |-> Null, titleAnalysis |-> Null, score |-> Null,
   recommendations |-> Null,
   passed |-> [meta |-> Undefined, contentDetails |-> Undefined, serp |-> Undefined,
               keywordIdeas |-> Undefined, titleAnalysis |-> Undefined,
               recommendations |-> Undefined]]

(***************************************************************************)
(* The documents and inputs the model runs analyze on.                     *)
(***************************************************************************)
BaseDoc ==
  [nodes |-> <<>>, title |-> Undefined, metaDescription |-> Undefined,
   canonical |-> FALSE, schemaScript |-> "none", links |-> <<>>, images |-> <<>>,
   quotes |-> 0, quoteCites |-> 0, lists |-> 0, bold |-> 0, italics |-> 0,
   viewport |-> FALSE, stylesheets |-> 0, scripts |-> 0, authorBio |-> FALSE,
   authoritySignals |-> 0, faq |-> FALSE, steps |-> FALSE]

Node(tag, text, hasAnchor) == [tag |-> tag, text |-> text, hasAnchor |-> hasAnchor]

\* every string of at most n characters
Strings(n) == UNION {[1..m -> Chars] : m \in 0..n}

\* the stretches of whole words of the text, as <<first, last>> positions
WordSpans(text) ==
  {<<i, j>> : i \in {h \in 1..Len(text) : text[h] # " " /\ (h = 1 \/ text[h - 1] = " ")},
              j \in {h \in 1..Len(text) : text[h] # " " /\ (h = Len(text) \/ text[h + 1] = " ")}}
    \cap {sp \in (1..Len(text)) \X (1..Len(text)) : sp[1] <= sp[2]}

\* what doc.match(...).out('array') may return: at most MaxPhrases stretches of
\* whole words, in the order of the text and not overlapping
PhraseLists(text) ==
  {[k \in 1..Len(spans) |-> SubSeq(text, spans[k][1], spans[k][2])] :
     spans \in {sp \in UNION {[1..m -> WordSpans(text)] : m \in 0..MaxPhrases} :
                  \A k \in 1..(Len(sp) - 1) : sp[k][2] < sp[k + 1][1]}}

TargetKeywords == {Undefined, Some(<<>>), Some(<<"a">>)}
PageUrl == <<"h", ":", "/", "/", "x", ".", "i", "o", "/", "a">>

\* a document that is one element of text
TextInputs ==
  {[doc |-> [BaseDoc EXCEPT !.nodes = <<Node(tag, t, FALSE)>>],
    url |-> Undefined, targetKeyword |-> tk] :
     tag \in {"span", "p"}, t \in Strings(MaxTextLen), tk \in TargetKeywords}

\* an absolute link to another site
ExternalLink == [href |-> <<"h", ":", "/", "/", "x", ".", "i", "o">>,
                 domain |-> <<"x", ".", "i", "o">>]
StatisticText == <<"5", "%">>

\* one paragraph that states a statistic, with or without a link in it, and quotations
CitationInputs ==
  {[doc |-> [BaseDoc EXCEPT !.nodes = <<Node("p", StatisticText, anchor)>>,
                            !.links = IF anchor THEN <<ExternalLink>> ELSE <<>>,
                            !.quotes = q, !.quoteCites = c],
    url |-> Undefined, targetKeyword |-> tk] :
     anchor \in BOOLEAN, q \in 0..1, c \in 0..MaxCites, tk \in TargetKeywords}

\* a page with a head: title, description, canonical link and a JSON-LD script
MetaInputs ==
  {[doc |-> [BaseDoc EXCEPT !.nodes = <<Node("h1", <<"a">>, FALSE), Node("p", <<"a", " ", "a", "a", " ", "a">>, FALSE)>>,
                            !.title = title, !.metaDescription = description,
                            !.canonical = canonical, !.schemaScript = script],
    url |-> url, targetKeyword |-> tk] :
     title \in {Undefined, Some(<<"A", ".", "a">>)},
     description \in {Undefined, Some(<<"a">>)},
     canonical \in BOOLEAN, script \in SchemaScripts,
     url \in {Undefined, Some(PageUrl)}, tk \in TargetKeywords}

\* the alt attribute of an img: none, empty, blank, or a text
AltTexts == {Undefined, Some(<<>>), Some(<<" ">>), Some(<<"a">>)}
Image(alt) == [alt |-> alt, optimizedName |-> FALSE, large |-> FALSE, original |-> FALSE]

\* a page of one short paragraph and at most MaxImages images, with or
\* without a viewport meta tag
ImageInputs ==
  {[doc |-> [BaseDoc EXCEPT !.nodes = <<Node("p", <<"a">>, FALSE)>>,
                            !.images = imgs, !.viewport = viewport],
    url |-> Undefined, targetKeyword |-> tk] :
     imgs \in UNION {[1..m -> {Image(a) : a \in AltTexts}] : m \in 0..MaxImages},
     viewport \in BOOLEAN, tk \in {Undefined, Some(<<"a">>)}}

\* paragraphs of one word each: a short one, and ones of more than 20 characters
\* without and with the word "study", the last also holding the keyword "a"
Filler(n) == [i \in 1..n |-> "b"]
ShortStudy == <<"s", "t", "u", "d", "y">>
Plain == Filler(21)
Study == ShortStudy \o Filler(16)
KeywordStudy == <<"a">> \o ShortStudy \o Filler(15)
ParagraphTexts == {ShortStudy, Plain, Study, KeywordStudy}
AuthorityLink == [href |-> <<"h", ":", "/", "/", "m", "i", "t", ".", "e", "d", "u">>,
                  domain |-> <<"m", "i", "t", ".", "e", "d", "u">>]

\* a page of at most MaxParagraphs such paragraphs, with or without two links
\* to a high-authority site
ParagraphInputs ==
  {[doc |-> [BaseDoc EXCEPT !.nodes = [i \in 1..Len(ps) |-> Node("p", ps[i], FALSE)],
                            !.links = IF cited THEN <<AuthorityLink, AuthorityLink>> ELSE <<>>],
    url |-> Undefined, targetKeyword |-> tk] :
     ps \in UNION {[1..m -> ParagraphTexts] : m \in 0..MaxParagraphs},
     cited \in BOOLEAN, tk \in {Undefined, Some(<<"a">>)}}

Inputs == TextInputs \cup CitationInputs \cup MetaInputs \cup ImageInputs \cup ParagraphInputs

(***************************************************************************)
(* analyze, stage by stage.  cur.passed records, for each stage that takes *)
(* a keyword, the keyword analyze handed to it.                            *)
(***************************************************************************)
Stage(from, to, field, value) ==
  /\ pc = from
  /\ pc' = to
  /\ cur' = [cur EXCEPT ![field] = value]
  /\ UNCHANGED <<input, phrases, maxCalls, now, outcomes, call, page>>

KeywordStage(from, to, field, keyword, value) ==
  /\ pc = from
  /\ pc' = to
  /\ cur' = [cur EXCEPT ![field] = value, !.passed = [@ EXCEPT ![field] = Some(keyword)]]
  /\ UNCHANGED <<input, phrases, maxCalls, now, outcomes, call, page>>

\* const $ = cheerio.load(input.content); const textContent = ...
Analyze ==
  /\ pc = "idle"
  /\ Len(outcomes) < maxCalls
  /\ pc' = "keywords"
  /\ cur' = [Fresh EXCEPT !.textContent = textContentOf(input.doc)]
  /\ UNCHANGED <<input, phrases, maxCalls, now, outcomes, call, page>>

\* analyzeKeywords returns, or new RegExp(primaryKeyword) throws and analyze rejects
AnalyzeKeywords ==
  /\ pc = "keywords"
  /\ IF RegExpThrows(primaryKeywordOf(input.targetKeyword, phrases))
       THEN /\ pc' = "idle"
            /\ cur' = Fresh
            /\ outcomes' = Append(outcomes, [kind |-> "error", value |-> "SyntaxError"])
       ELSE /\ pc' = "links"
            /\ cur' = [cur EXCEPT !.keywords =
                         analyzeKeywords(input.doc, cur.textContent, input.targetKeyword,
                                         input.url, phrases)]
            /\ UNCHANGED outcomes
  /\ UNCHANGED <<input, phrases, maxCalls, now, call, page>>

AnalyzeLinks == Stage("links", "meta", "links", analyzeLinks(input.doc, input.url))

\* the keyword that analyze hands to the later stages
stageKeyword(keywords, in) == keywords.primaryKeyword

AnalyzeMeta ==
  LET k == stageKeyword(cur.keywords, input)
  IN KeywordStage("meta", "content", "meta", k, analyzeMeta(input.doc, k, input.url))

AnalyzeContentQuality ==
  Stage("content", "images", "content", analyzeContentQuality(cur.textContent, input.doc))

AnalyzeImagesAndVideos == Stage("images", "technical", "images", analyzeImagesAndVideos(input.doc))

AnalyzeTechnicalSEO == Stage("technical", "ai", "technical", analyzeTechnicalSEO(input.doc))

AnalyzeAIOptimization ==
  Stage("ai", "details", "aiOptimization", analyzeAIOptimization(input.doc, cur.textContent))

\* new Date() reads the clock, which never runs backwards
AnalyzeContentDetails ==
  /\ pc = "details"
  /\ \E t \in now..MaxClock :
       LET k == stageKeyword(cur.keywords, input)
       IN /\ now' = t
          /\ cur' = [cur EXCEPT !.contentDetails =
                                   analyzeContentDetails(input.doc, cur.textContent, k, t),
                                !.passed = [@ EXCEPT !.contentDetails = Some(k)]]
  /\ pc' = "contentData"
  /\ UNCHANGED <<input, phrases, maxCalls, outcomes, call, page>>

PrepareContentData ==
  Stage("contentData", "serp", "yourContentData",
        yourContentDataOf(input.doc, cur.textContent, cur.keywords, cur.content))

AnalyzeSERP ==
  LET k == stageKeyword(cur.keywords, input)
  IN KeywordStage("serp", "ideas", "serp", k, analyzeSERP(k, cur.yourContentData))

GenerateKeywordIdeas ==
  LET k == stageKeyword(cur.keywords, input)
  IN KeywordStage("ideas", "title", "keywordIdeas", k, generateKeywordIdeas(k))

AnalyzeTitle ==
  LET k == stageKeyword(cur.keywords, input)
  IN KeywordStage("title", "score", "titleAnalysis", k,
                  analyzeTitle(IF cur.meta.title.present THEN OrEmpty(input.doc.title) ELSE <<>>, k))

CalculateScore ==
  Stage("score", "recommendations", "score",
        calculateScore(cur.keywords, cur.links, cur.meta, cur.content, Null, cur.images,
                       cur.technical, cur.aiOptimization))

\* the recommendations are generated before the score is calculated
GenerateRecommendationsBeforeScore ==
  /\ cur.passed.recommendations = Undefined
  /\ KeywordStage("score", "score", "recommendations", cur.keywords.primaryKeyword,
        generateEnhancedRecommendations(cur.keywords, cur.links, cur.meta, cur.content, Null,
                                        cur.images, cur.technical, cur.aiOptimization,
                                        cur.contentDetails))

GenerateRecommendations ==
  KeywordStage("recommendations", "return", "recommendations", cur.keywords.primaryKeyword,
        generateEnhancedRecommendations(cur.keywords, cur.links, cur.meta, cur.content, Null,
                                        cur.images, cur.technical, cur.aiOptimization,
                                        cur.contentDetails))

\* return { keywords, links, ..., contentDetails }
Return ==
  /\ pc = "return"
  /\ pc' = "idle"
  /\ outcomes' = Append(outcomes, [kind |-> "result",
                                   value |-> [cur EXCEPT !.textContent = Null,
                                                         !.yourContentData = Null]])
  /\ cur' = Fresh
  /\ UNCHANGED <<input, phrases, maxCalls, now, call, page>>

Init ==
  /\ input \in Inputs
  /\ phrases \in PhraseLists(textContentOf(input.doc))
  /\ maxCalls = 1
  /\ pc = "idle"
  /\ now = 0
  /\ cur = Fresh
  /\ outcomes = <<>>
  /\ call = NoCall
  /\ page = NoPage

Next ==
  \/ Analyze
  \/ AnalyzeKeywords
  \/ AnalyzeLinks
  \/ AnalyzeMeta
  \/ AnalyzeContentQuality
  \/ AnalyzeImagesAndVideos
  \/ AnalyzeTechnicalSEO
  \/ AnalyzeAIOptimization
  \/ AnalyzeContentDetails
  \/ PrepareContentData
  \/ AnalyzeSERP
  \/ GenerateKeywordIdeas
  \/ AnalyzeTitle
  \/ CalculateScore
  \/ GenerateRecommendations
  \/ Return

Spec == Init /\ [][Next]_vars

(***************************************************************************)
(* Properties of analyze.                                                  *)
(***************************************************************************)
\* the results that analyze has returned
Results == {outcomes[i].value : i \in {j \in DOMAIN outcomes : outcomes[j].kind = "result"}}

CategoryScores == {"overall", "seo", "readability", "authority", "technical", "aiOptimization"}
AfterKeywords == {"links", "meta", "content", "images", "technical", "ai", "details",
                  "contentData", "serp", "ideas", "title", "score", "recommendations", "return"}
AfterMeta == AfterKeywords \ {"links", "meta"}

\* C1: the overall score, the five category scores and the nine breakdown
\* entries of every result are integers from 0 to 100.
C1_ScoresAreIntegersInRange ==
  \A r \in Results :
    /\ \A f \in CategoryScores : IsIntegerIn(r.score[f], 0, 100)
    /\ \A f \in DOMAIN r.score.breakdown : IsIntegerIn(r.score.breakdown[f], 0, 100)

\* C3: when the text has no words, no sentences or no paragraphs, the average
\* over the missing unit is reported as 0 and the content sub-score, the
\* readability score and the overall score are finite numbers.
C3_ZeroCountsGiveZeroAverages ==
  LET text == textContentOf(input.doc)
      noWords == WordsOf(text) = <<>>
      noSentences == SentencesOf(text) = <<>>
      noParagraphs == Paragraphs(input.doc) = <<>>
  IN \A r \in Results :
       /\ noSentences => r.content.readability.avgSentenceLength = Int2(0)
       /\ noParagraphs => r.content.readability.avgParagraphLength = Int2(0)
       /\ noWords \/ noSentences \/ noParagraphs =>
            /\ IsFinite(r.content.readability.score)
            /\ IsFinite(r.content.readability.fleschScore)
            /\ IsFinite(r.score.breakdown.content)
            /\ IsFinite(r.score.readability)
            /\ IsFinite(r.score.overall)

\* C4: for an empty text analyzeKeywords counts 0 words and reports density 0,
\* and the content data handed to the SERP comparison has word count 0 and
\* keyword density 0.
C4_EmptyTextHasNoWords ==
  textContentOf(input.doc) = <<>> =>
    \A r \in Results :
      /\ r.keywords.local.wordCount = 0
      /\ r.keywords.density = Int2(0)
      /\ r.serp.yourContent.wordCount = 0
      /\ r.serp.yourContent.keywordDensity = Int2(0)

\* the phrase has at least two words
IsMultiWord(phrase) == Len(WordsOf(phrase)) >= 2

C8_NeverThrowsWithoutOptions ==
  ~input.url.present /\ ~input.targetKeyword.present =>
    \A i \in DOMAIN outcomes : outcomes[i].kind # "error"

\* C9: a JSON-LD script that does not parse leaves schemaMarkup absent, with
\* no type and with a recommendation, and every other field of analyzeMeta's
\* result is what it is for the same page without the script.
C9_InvalidSchemaIsReported ==
  pc \in AfterMeta /\ input.doc.schemaScript = "invalid" =>
    LET without == analyzeMeta([input.doc EXCEPT !.schemaScript = "none"],
                               cur.keywords.primaryKeyword, input.url)
    IN /\ cur.meta.schemaMarkup.present = FALSE
       /\ cur.meta.schemaMarkup.type = NoType
       /\ cur.meta.schemaMarkup.recommendations # <<>>
       /\ \A f \in DOMAIN cur.meta \ {"schemaMarkup"} : cur.meta[f] = without[f]

\* a page with a title, a canonical link and an unparsable script went through analyzeMeta
C9_Witness ==
  /\ pc = "content"
  /\ input.doc.schemaScript = "invalid"
  /\ input.doc.title.present
  /\ input.doc.canonical
  /\ cur.meta.schemaMarkup.recommendations = <<FixInvalidSchema>>
  /\ cur.meta.title.present

(***************************************************************************)
(* calculateScore on its own: the analyses it is given are drawn from the  *)
(* values the analyzers produce.                                           *)
(***************************************************************************)
KeywordsArg(inTitle, inFirst, inHeadings, density) ==
  [primaryKeyword |-> <<"a">>,
   placement |-> [inTitle |-> inTitle, inFirstParagraph |-> inFirst, inHeadings |-> inHeadings],
   density |-> density,
   stuffingAlert |-> stuffingAlertOf(density)]

LinksArg(internal, external, highAuthority, missing) ==
  [internal |-> [count |-> internal],
   external |-> [count |-> external, highAuthorityCount |-> highAuthority,
                 missingCitations |-> missing]]

MetaArg(title, description, canonical, schema, hierarchy) ==
  [title |-> [present |-> title, hasKeyword |-> title],
   description |-> [present |-> description, hasKeyword |-> description],
   canonicalTag |-> canonical,
   schemaMarkup |-> [present |-> schema],
   headingStructure |-> [properHierarchy |-> hierarchy]]

ContentArg(score, intro, conclusion, lists, subheadings, quotes, cites, missing) ==
  [readability |-> [score |-> score],
   structure |-> [hasIntroduction |-> intro, hasConclusion |-> conclusion,
                  listCount |-> lists, subheadingCount |-> subheadings],
   citations |-> [totalQuotes |-> quotes, quotesWithAttribution |-> cites,
                  missingCitations |-> missing]]

ImagesArg(count, withAlt) ==
  [images |-> [count |-> count, withAltText |-> withAlt, optimizedFileNames |-> withAlt,
               largeFileSize |-> 0]]

TechnicalArg(viewport, loadTime, bio, signals, cites) ==
  [mobileOptimization |-> [isResponsive |-> viewport, viewportMeta |-> viewport],
   pageSpeed |-> [estimatedLoadTime |-> loadTime],
   eeat |-> [authorBio |-> bio, authoritySignals |-> signals, expertQuotes |-> cites,
             originalPhotos |-> 0]]

AiArg(upfront, coverage, declarative, snippets) ==
  [aiVisibility |-> [keyPointsUpfront |-> upfront, comprehensiveTopicCoverage |-> coverage,
                     declarativeSentences |-> declarative],
   featuredSnippets |-> [optimizedForSnippets |-> snippets]]

ScoreArgs(keywords, links, meta, content, images, technical, ai) ==
  [keywords |-> keywords, links |-> links, meta |-> meta, content |-> content,
   images |-> images, technical |-> technical, aiOptimization |-> ai]

\* the readability scores analyzeContentQuality reports: a rounded Flesch score, or NaN
ReadabilityScores == {NaN} \cup {Int2(k) : k \in {0, 1, 2, 3, 4, 33, 99, 100}}
Densities == {Int2(0), Int2(1), Int2(5)}
LoadTimes == {"fast", "moderate", "slow"}

BaseKeywords == KeywordsArg(FALSE, FALSE, FALSE, Int2(0))
BaseLinks == LinksArg(0, 0, 0, 0)
BaseMeta == MetaArg(FALSE, FALSE, FALSE, FALSE, FALSE)
BaseContent == ContentArg(Int2(0), FALSE, FALSE, 0, 0, 0, 0, 0)
BaseImages == ImagesArg(0, 0)
BaseTechnical == TechnicalArg(FALSE, "slow", FALSE, 0, 0)
BaseAi == AiArg(FALSE, FALSE, 0, FALSE)

\* keyword, link and meta analyses vary together
SeoArgs ==
  {ScoreArgs(KeywordsArg(t, f, t, d), LinksArg(i, 0, 0, 0), MetaArg(t, c, c, s, s),
             BaseContent, BaseImages, BaseTechnical, BaseAi) :
     t \in BOOLEAN, f \in BOOLEAN, d \in Densities, i \in 0..MaxCount,
     c \in BOOLEAN, s \in BOOLEAN}

\* links, quotations and uncited statistics vary together
AuthorityArgs ==
  {ScoreArgs(BaseKeywords, LinksArg(0, e, IF h THEN e ELSE 0, m), BaseMeta,
             ContentArg(Int2(0), FALSE, FALSE, 0, 0, q, c, m),
             BaseImages, TechnicalArg(FALSE, "slow", FALSE, 0, c), BaseAi) :
     e \in 0..MaxCount, h \in BOOLEAN, m \in 0..MaxCount, q \in 0..MaxCount,
     c \in 0..MaxCount}

\* readability and structure vary together
ReadabilityArgs ==
  {ScoreArgs(BaseKeywords, BaseLinks, BaseMeta,
             ContentArg(r, intro, intro, lists, subs, 0, 0, 0),
             ImagesArg(MaxCount, alt), BaseTechnical, BaseAi) :
     r \in ReadabilityScores, intro \in BOOLEAN, lists \in 0..MaxCount,
     subs \in 0..MaxCount, alt \in 0..MaxCount}

\* every category varies at once
OverallArgs ==
  {ScoreArgs(KeywordsArg(t, t, t, Int2(1)), LinksArg(i, 0, 0, 0), BaseMeta,
             ContentArg(r, FALSE, FALSE, 0, subs, 1, c, 0), BaseImages,
             TechnicalArg(v, l, FALSE, 0, c), AiArg(v, FALSE, d, FALSE)) :
     t \in BOOLEAN, i \in 0..MaxCount, r \in {NaN, Int2(1), Int2(33)}, subs \in 0..1,
     c \in 0..1, v \in BOOLEAN, l \in LoadTimes, d \in 0..MaxCount}

AllScoreArgs == SeoArgs \cup AuthorityArgs \cup ReadabilityArgs \cup OverallArgs

IdleInput == [doc |-> BaseDoc, url |-> Undefined, targetKeyword |-> Undefined]

\* the analyzer is not running: only the named function is called
AnalyzerIdle ==
  /\ input = IdleInput
  /\ phrases = <<>>
  /\ maxCalls = 0
  /\ pc = "idle"
  /\ now = 0
  /\ cur = Fresh
  /\ outcomes = <<>>
  /\ page = NoPage

Calling(fn, args) == [fn |-> fn, args |-> args, returned |-> FALSE, ret |-> Null]

Returns(fn, ret) ==
  /\ call.fn = fn
  /\ ~call.returned
  /\ call' = [call EXCEPT !.returned = TRUE, !.ret = ret]
  /\ UNCHANGED <<input, phrases, maxCalls, pc, now, cur, outcomes, page>>

InitScore ==
  /\ AnalyzerIdle
  /\ call \in {Calling("calculateScore", a) : a \in AllScoreArgs}

CallCalculateScore ==
  Returns("calculateScore",
          calculateScore(call.args.keywords, call.args.links, call.args.meta, call.args.content,
                         IF "anchorText" \in DOMAIN call.args THEN call.args.anchorText ELSE Null,
                         call.args.images, call.args.technical, call.args.aiOptimization))

NextScore == CallCalculateScore

SpecScore == InitScore /\ [][NextScore]_vars

\* r is x rounded to the nearest integer, halves upwards; NaN stays NaN
RoundsTo(r, x) ==
  IF IsFinite(x)
    THEN /\ IsFinite(r)
         /\ r.d = 1
         /\ 2 * r.n * x.d - x.d <= 2 * x.n
         /\ 2 * x.n < 2 * r.n * x.d + x.d
    ELSE r = x

\* (a + b + c) / k for finite a, b, c
MeanOf(terms, k) ==
  IF \A i \in DOMAIN terms : IsFinite(terms[i])
    THEN LET RECURSIVE Sum(_)
             Sum(i) == IF i = 0 THEN Int2(0) ELSE JsAdd(Sum(i - 1), terms[i])
         IN JsDiv(Sum(Len(terms)), Int2(k))
    ELSE NaN

RepeatInputs ==
  {in \in TextInputs : Len(in.doc.nodes[1].text) <= MaxRepeatTextLen} \cup CitationInputs

InitRepeat ==
  /\ input \in RepeatInputs
  /\ phrases \in PhraseLists(textContentOf(input.doc))
  /\ maxCalls = MaxRuns
  /\ pc = "idle"
  /\ now = 0
  /\ cur = Fresh
  /\ outcomes = <<>>
  /\ call = NoCall
  /\ page = NoPage

SpecRepeat == InitRepeat /\ [][Next]_vars

\* the outcome with the time of analysis blanked
WithoutTime(o) ==
  IF o.kind = "result"
    THEN [o EXCEPT !.value.contentDetails.realTimeValidation.lastAnalyzed = 0]
    ELSE o

densityReport(occurrences, wordCount) ==
  [density |-> reportedDensity(densityOf(occurrences, wordCount)),
   naturalIntegration |-> naturalIntegrationOf(densityOf(occurrences, wordCount)),
   stuffingAlert |-> stuffingAlertOf(densityOf(occurrences, wordCount))]

WordCounts == (1..MaxWords) \cup {10000 * j + r : j \in 1..MaxScale, r \in 0..1}

InitDensity ==
  /\ AnalyzerIdle
  /\ call \in {Calling("density", [wordCount |-> w, occurrences |-> k]) :
                 w \in WordCounts, k \in 0..MaxOccurrences}

CallDensity ==
  Returns("density",
          [fewer |-> densityReport(call.args.occurrences, call.args.wordCount),
           more |-> densityReport(call.args.occurrences + 1, call.args.wordCount)])

NextDensity == CallDensity

SpecDensity == InitDensity /\ [][NextDensity]_vars

\* C6 as stated: for a fixed word count, while the density of the text with
\* fewer matches does not exceed 3, one more match reports a strictly larger
\* density.
C6_StrictlyMonotonic ==
  call.fn = "density" /\ call.returned /\ ~call.ret.fewer.stuffingAlert =>
    JsGt(call.ret.more.density, call.ret.fewer.density)

\* C6: for a fixed word count, while the density of the text with fewer
\* matches does not exceed 3, one more match never reports a smaller density,
\* and reports a strictly larger one when the text has at most 10,000 words.
C6_MonotonicUpToRounding ==
  call.fn = "density" /\ call.returned /\ ~call.ret.fewer.stuffingAlert =>
    /\ JsGe(call.ret.more.density, call.ret.fewer.density)
    /\ call.args.wordCount <= 10000 =>
         JsGt(call.ret.more.density, call.ret.fewer.density)

\* a text of more than a thousand words with a match, below the stuffing threshold
C6_Witness ==
  /\ call.fn = "density" /\ call.returned
  /\ call.args.wordCount > 1000
  /\ call.args.wordCount <= 10000
  /\ call.args.occurrences >= 1
  /\ ~call.ret.fewer.stuffingAlert
  /\ ~call.ret.more.stuffingAlert
  /\ JsGt(call.ret.fewer.density, Int2(0))

(***************************************************************************)
(* checkHeadingOrder on the levels of a sequence of headings.              *)
(***************************************************************************)
HeadingLevels == 1..6
HeadingSequences == UNION {[1..n -> HeadingLevels] : n \in 0..MaxHeadings}

InitHeadings ==
  /\ AnalyzerIdle
  /\ call \in {Calling("checkHeadingOrder", h) : h \in HeadingSequences}

CallCheckHeadingOrder == Returns("checkHeadingOrder", checkHeadingOrder(call.args))

NextHeadings == CallCheckHeadingOrder

SpecHeadings == InitHeadings /\ [][NextHeadings]_vars

\* C10: checkHeadingOrder returns true exactly when no heading's level is
\* more than one above the level of the heading before it; going back up by
\* any number of levels is allowed: 1,2,3,2 is valid and 1,3 is not.
C10_HeadingOrder ==
  call.fn = "checkHeadingOrder" /\ call.returned =>
    /\ call.ret <=> \A i \in 2..Len(call.args) : call.args[i] - call.args[i - 1] <= 1
    /\ call.args = <<1, 2, 3, 2>> => call.ret
    /\ call.args = <<1, 3>> => ~call.ret

\* the headings 1,2,3,1 return from level 3 to level 1 and are accepted
C10_Witness ==
  /\ call.fn = "checkHeadingOrder" /\ call.returned
  /\ call.args = <<1, 2, 3, 1>>
  /\ call.ret = TRUE

(***************************************************************************)
(* analyzeContentQuality on its own, on texts of many sentences and on     *)
(* texts with white space around them.                                     *)
(***************************************************************************)
RECURSIVE Repeat(_, _)
Repeat(s, n) == IF n = 0 THEN <<>> ELSE s \o Repeat(s, n - 1)

Banana == <<"b", "a", "n", "a", "n", "a">>
CatAndDog == <<"T", "h", "e", " ", "c", "a", "t", " ", "s", "a", "t", ".", " ",
               "T", "h", "e", " ", "d", "o", "g", " ", "r", "a", "n", ".">>
Margins == {<<>>, <<" ">>}

\* a text, with the sentences and the words of three syllables or more that it is built from
ManySentences ==
  {[text |-> Repeat(Banana \o <<" ">>, p) \o Repeat(<<"a", ".">>, n), sentences |-> n,
    polysyllables |-> p] : p \in 0..MaxLongWords, n \in 1..MaxSentences}

PaddedTexts ==
  {[text |-> lead \o CatAndDog \o trail, sentences |-> 2, polysyllables |-> 0] :
     lead \in Margins, trail \in Margins}
  \cup
  {[text |-> lead \o Banana \o <<" ">> \o Banana \o <<".">> \o trail, sentences |-> 1,
    polysyllables |-> 2] : lead \in Margins, trail \in Margins}

InitContent ==
  /\ AnalyzerIdle
  /\ call \in {Calling("analyzeContentQuality", a) : a \in ManySentences \cup PaddedTexts}

CallAnalyzeContentQuality ==
  Returns("analyzeContentQuality",
          analyzeContentQuality(call.args.text,
                                [BaseDoc EXCEPT !.nodes = <<Node("p", call.args.text, FALSE)>>]))

NextContent == CallAnalyzeContentQuality

SpecContent == InitContent /\ [][NextContent]_vars

\* C11: the reported smogIndex is 0 for a text of fewer than 30 sentences,
\* and for 30 sentences or more it is the SMOG formula applied to the text's
\* count of words of three or more syllables and its sentence count.
C11_SmogOnlyFromThirtySentences ==
  call.fn = "analyzeContentQuality" /\ call.returned =>
    LET smog == call.ret.readability.smogIndex
    IN /\ call.args.sentences < 30 => smog = Int2(0)
       /\ call.args.sentences >= 30 =>
            smog = [k |-> "smog", n |-> call.args.polysyllables, d |-> call.args.sentences]

\* a text of exactly 30 sentences with two words of three syllables
C11_Witness ==
  /\ call.fn = "analyzeContentQuality" /\ call.returned
  /\ call.args.sentences = 30
  /\ call.args.polysyllables = 2
  /\ call.ret.readability.smogIndex.k = "smog"
  /\ call.ret.readability.smogIndex.n = 2

\* the syllables of the non-empty words of the text
RECURSIVE SyllablesOfWords(_)
SyllablesOfWords(ws) ==
  IF ws = <<>> THEN 0
  ELSE LET letters == LettersOnly(Lower(Head(ws)))
       IN (IF Len(letters) <= 3 THEN 1 ELSE Max2(1, VowelGroups(letters, FALSE)))
          + SyllablesOfWords(Tail(ws))

\* C12: with W the non-empty words, S the non-empty sentence fragments and Y
\* the syllables of exactly those W words, the Flesch score is
\* 206.835 - 1.015 W/S - 84.6 Y/W clamped to [0,100]; "The cat sat. The dog
\* ran." scores 100, with or without white space around it.
C12_FleschOverTheWords ==
  call.fn = "analyzeContentQuality" /\ call.returned =>
    LET W == Len(WordsOf(call.args.text))
        S == call.args.sentences
        Y == SyllablesOfWords(WordsOf(call.args.text))
        raw == Fin(206835 * S * W - 1015 * W * W - 84600 * Y * S, 1000 * S * W)
        clamped == IF JsLt(raw, Int2(0)) THEN Int2(0)
                   ELSE IF JsGt(raw, Int2(100)) THEN Int2(100) ELSE raw
    IN /\ call.ret.readability.fleschScore = MathRound(clamped)
       /\ Includes(call.args.text, CatAndDog) => call.ret.readability.fleschScore = Int2(100)

(***************************************************************************)
(* C13: alt texts of images.                                               *)
(***************************************************************************)
Titles(recommendations) == {recommendations[i].title : i \in DOMAIN recommendations}
AltTextTitle == "Add Alt Text to Images"

\* C13: in every image analysis withAltText + missingAltText = count; for
\* content with no image missingAltText = count = 0 and the returned
\* recommendations hold no alt-text recommendation; either generator emits
\* the alt-text recommendation only when missingAltText > 0.
C13_AltTextCounts ==
  \A r \in Results :
    LET i == r.images.images
        legacy == generateRecommendations(r.keywords, r.links, r.meta, r.content, Null,
                                          r.images, r.technical, r.aiOptimization)
    IN /\ i.withAltText + i.missingAltText = i.count
       /\ i.withAltText >= 0 /\ i.missingAltText >= 0
       /\ input.doc.images = <<>> =>
            /\ i.missingAltText = 0 /\ i.count = 0
            /\ AltTextTitle \notin Titles(r.recommendations)
            /\ AltTextTitle \notin Titles(legacy)
       /\ AltTextTitle \in Titles(r.recommendations) \cup Titles(legacy) =>
            i.missingAltText > 0

\* analyze returned recommendations for a page without images
C13_Witness ==
  \E r \in Results :
    /\ input.doc.images = <<>>
    /\ r.images.images.count = 0
    /\ r.recommendations # <<>>

NamesParagraph(rec) == rec.whereToImplement # <<>> /\ rec.whereToImplement[1] \in {"first paragraph", "paragraph"}
ParagraphNamed(rec) == IF rec.whereToImplement[1] = "first paragraph" THEN 1 ELSE rec.whereToImplement[2]
LinkRule == "Add External Link in Paragraph"
IntroductionRule == "Add Keyword to Introduction"

Rank(type) == CASE type = "critical" -> 1 [] type = "important" -> 2 [] type = "suggestion" -> 3
InRankOrder(recs) == \A i, j \in DOMAIN recs : i < j => Rank(recs[i].type) <= Rank(recs[j].type)
MobileTitle == "Mobile Optimization Required"

\* C16: the rules are evaluated critical first, then important, then
\* suggestion, so every emitted list is in that order; the critical checks
\* include the one for no mobile optimization, so a page that is not
\* responsive gets that critical recommendation.
C16_CriticalImportantSuggestion ==
  \A r \in Results :
    LET legacy == generateRecommendations(r.keywords, r.links, r.meta, r.content, Null,
                                          r.images, r.technical, r.aiOptimization)
    IN /\ InRankOrder(r.recommendations)
       /\ InRankOrder(legacy)
       /\ ~r.technical.mobileOptimization.isResponsive =>
            \E i \in DOMAIN r.recommendations :
              /\ r.recommendations[i].title = MobileTitle
              /\ r.recommendations[i].type = "critical"

(***************************************************************************)
(* C17: the order of the stages of analyze.                                *)
(***************************************************************************)
\* the stage has returned its part of the result
Completed(c, stage) ==
  IF stage = "recommendations" THEN c.passed.recommendations # Undefined ELSE c[stage] # Null
ResultStages == {"keywords", "links", "meta", "content", "images", "technical",
                 "aiOptimization", "contentDetails", "serp", "keywordIdeas",
                 "titleAnalysis", "score", "recommendations"}

\* C17: at every point of a run of analyze, the meta, scoring and
\* recommendation stages have completed only if keyword analysis has, the
\* SERP comparison only if content-quality analysis has, and the
\* recommendations only if the score has; every result returned holds the
\* part of every stage.
C17_StageOrder ==
  /\ \A stage \in {"meta", "score", "recommendations"} :
       Completed(cur, stage) => Completed(cur, "keywords")
  /\ Completed(cur, "serp") => Completed(cur, "content")
  /\ Completed(cur, "recommendations") => Completed(cur, "score")
  /\ \A r \in Results : \A stage \in ResultStages : Completed(r, stage)

\* analyze has returned a result with a score and recommendations
C17_Witness ==
  \E r \in Results : r.score # Null /\ r.recommendations # <<>> /\ r.serp # Null

(***************************************************************************)
(* countKeywordOccurrences, called on keywords of 1 to MaxKeywordLen       *)
(* characters that compile as a regular expression and on texts of at most *)
(* MaxHaystackLen characters.                                              *)
(***************************************************************************)
KeywordChars == {"a", "A", "."}
HaystackChars == {"a", "x", "."}

InitOccurrences ==
  /\ AnalyzerIdle
  /\ call \in {Calling("countKeywordOccurrences", [text |-> t, keyword |-> k]) :
                 t \in UNION {[1..m -> HaystackChars] : m \in 0..MaxHaystackLen},
                 k \in UNION {[1..m -> KeywordChars] : m \in 1..MaxKeywordLen}}

CallCountKeywordOccurrences ==
  Returns("countKeywordOccurrences",
          countKeywordOccurrences(call.args.text, call.args.keyword))

NextOccurrences == CallCountKeywordOccurrences

SpecOccurrences == InitOccurrences /\ [][NextOccurrences]_vars

\* the occurrences of keyword as a literal substring of text, letter case
\* aside, counted left to right without overlap
LiteralAt(text, keyword, i) == \A j \in 1..Len(keyword) : Lower(<<keyword[j]>>) = Lower(<<text[i + j - 1]>>)
RECURSIVE LiteralOccurrencesFrom(_, _, _)
LiteralOccurrencesFrom(text, keyword, i) ==
  IF i + Len(keyword) - 1 > Len(text) THEN 0
  ELSE IF LiteralAt(text, keyword, i)
    THEN 1 + LiteralOccurrencesFrom(text, keyword, i + Len(keyword))
    ELSE LiteralOccurrencesFrom(text, keyword, i + 1)

\* C18: the occurrence count is the number of non-overlapping occurrences of
\* the keyword as a literal substring of the text, letter case aside; no
\* character of the keyword acts as a pattern operator.
C18_LiteralOccurrences ==
  call.fn = "countKeywordOccurrences" /\ call.returned =>
    call.ret = LiteralOccurrencesFrom(call.args.text, call.args.keyword, 1)

(***************************************************************************)
(* The density and the flags of analyzeKeywords for texts of up to         *)
(* MaxFlagWords words with up to MaxFlagOccurrences occurrences.           *)
(***************************************************************************)
InitFlags ==
  /\ AnalyzerIdle
  /\ call \in {Calling("density", [wordCount |-> w, occurrences |-> k]) :
                 w \in 1..MaxFlagWords, k \in 0..MaxFlagOccurrences}

SpecFlags == InitFlags /\ [][NextDensity]_vars

\* C19: the flags agree with the density reported: stuffingAlert is true
\* exactly when it exceeds 3, naturalIntegration exactly when it lies in
\* [0.5, 2.5], and the two are never both true.
C19_FlagsAgreeWithReportedDensity ==
  call.fn = "density" /\ call.returned =>
    LET r == call.ret.fewer
    IN /\ r.stuffingAlert <=> JsGt(r.density, Int2(3))
       /\ r.naturalIntegration <=> JsGe(r.density, Fin(1, 2)) /\ JsLe(r.density, Fin(5, 2))
       /\ ~(r.stuffingAlert /\ r.naturalIntegration)

\* C19 as amended: the flags agree with the density before it is rounded,
\* 100 * occurrences / wordCount: stuffingAlert is true exactly when that
\* exceeds 3, naturalIntegration exactly when it lies in [0.5, 2.5], the two
\* are never both true, and the density reported is within 0.005 of it.
C19_FlagsAgreeWithUnroundedDensity ==
  call.fn = "density" /\ call.returned =>
    LET r == call.ret.fewer
        k == call.args.occurrences
        w == call.args.wordCount
    IN /\ r.stuffingAlert <=> 100 * k > 3 * w
       /\ r.naturalIntegration <=> 200 * k >= w /\ 200 * k <= 5 * w
       /\ ~(r.stuffingAlert /\ r.naturalIntegration)
       /\ r.density.k = "fin"
       /\ 200 * (r.density.n * w - 100 * k * r.density.d) <= r.density.d * w
       /\ 200 * (100 * k * r.density.d - r.density.n * w) <= r.density.d * w

\* 7 occurrences in 233 words: the density 3.004 is reported as 3 and the alert is raised
C19_Witness ==
  /\ call.fn = "density" /\ call.returned
  /\ call.args.occurrences = 7 /\ call.args.wordCount = 233
  /\ call.ret.fewer.density = Int2(3)
  /\ call.ret.fewer.stuffingAlert

(***************************************************************************)
(* analyzeLinks, called on pages of at most MaxLinks hyperlinks, with and  *)
(* without the URL of the page.                                            *)
(***************************************************************************)
BaseUrl == <<"h", ":", "/", "/", "x", ".", "i", "o">>
NoHost == <<>>
Hyperlinks ==
  {[href |-> <<>>, domain |-> NoHost],
   [href |-> <<"#", "a">>, domain |-> NoHost],
   [href |-> <<"/", "a">>, domain |-> NoHost],
   [href |-> <<".", "/", "a">>, domain |-> NoHost],
   [href |-> <<".", ".", "/", "a">>, domain |-> NoHost],
   [href |-> <<"a">>, domain |-> NoHost],
   [href |-> BaseUrl \o <<"/", "a">>, domain |-> <<"x", ".", "i", "o">>],
   [href |-> <<"h", ":", "/", "/", "y", ".", "i", "o">>, domain |-> <<"y", ".", "i", "o">>],
   AuthorityLink}

InitLinks ==
  /\ AnalyzerIdle
  /\ call \in {Calling("analyzeLinks", [links |-> ls, baseUrl |-> url]) :
                 ls \in UNION {[1..m -> Hyperlinks] : m \in 0..MaxLinks},
                 url \in {Undefined, Some(BaseUrl)}}

CallAnalyzeLinks ==
  Returns("analyzeLinks",
          analyzeLinks([BaseDoc EXCEPT !.links = call.args.links], call.args.baseUrl))

NextLinks == CallAnalyzeLinks

SpecLinks == InitLinks /\ [][NextLinks]_vars

\* a relative path: a reference without a scheme that does not begin with "//"
RelativePath(href) == ~Includes(href, <<":">>) /\ ~StartsWithAt(href, <<"/", "/">>, 1)
Positions(links) == {links[i].position : i \in DOMAIN links}

\* C20: every hyperlink whose href is not empty and does not start with '#'
\* is in exactly one of internal.links and external.links, and no other link
\* is in either; it is internal exactly when its href is a relative path or
\* contains the base URL supplied; the two counts add up to the number of
\* such hyperlinks and highAuthorityCount <= external.count.
C20_InternalOrExternal ==
  call.fn = "analyzeLinks" /\ call.returned =>
    LET ls == call.args.links
        counted == {i \in 1..Len(ls) : ls[i].href # <<>> /\ ls[i].href[1] # "#"}
        internal == call.ret.internal
        external == call.ret.external
    IN /\ Positions(internal.links) \cup Positions(external.links) = {i - 1 : i \in counted}
       /\ Positions(internal.links) \cap Positions(external.links) = {}
       /\ Len(internal.links) + Len(external.links) = Cardinality(counted)
       /\ \A i \in counted :
            i - 1 \in Positions(internal.links) <=>
              \/ RelativePath(ls[i].href)
              \/ call.args.baseUrl # Undefined /\ Includes(ls[i].href, OrEmpty(call.args.baseUrl))
       /\ internal.count + external.count = Cardinality(counted)
       /\ external.highAuthorityCount <= external.count

(***************************************************************************)
(* analyzeAnchorText.  The a[href] elements of the page are given as runs: *)
(* [text, copies] stands for copies elements in a row with that text.      *)
(***************************************************************************)
GenericTerms ==
  {<<"c", "l", "i", "c", "k", " ", "h", "e", "r", "e">>,
   <<"r", "e", "a", "d", " ", "m", "o", "r", "e">>,
   <<"l", "e", "a", "r", "n", " ", "m", "o", "r", "e">>,
   <<"h", "e", "r", "e">>, <<"t", "h", "i", "s">>, <<"l", "i", "n", "k">>}

RECURSIVE SumCopies(_)
SumCopies(runs) == IF runs = <<>> THEN 0 ELSE Head(runs).copies + SumCopies(Tail(runs))

\* the length is tested before the list of generic terms
anchorTypeOfLengthFirst(text) ==
  IF Len(text) < 10 THEN "brandName"
  ELSE IF Len(text) > 20 THEN "descriptive"
  ELSE IF text \in GenericTerms THEN "generic"
  ELSE "exactMatch"

\* the type of one anchor text
anchorTypeOf(text) ==
  IF text \in GenericTerms THEN "generic"
  ELSE IF Len(text) < 10 THEN "brandName"
  ELSE IF Len(text) > 20 THEN "descriptive"
  ELSE "exactMatch"

analyzeAnchorText(anchors) ==
  LET pushed == SelectSeq([i \in 1..Len(anchors) |->
                             [text |-> Lower(Trim(anchors[i].text)), copies |-> anchors[i].copies]],
                          LAMBDA a : a.text # <<>>)
      ofType(t) == SumCopies(SelectSeq(pushed, LAMBDA a : anchorTypeOf(a.text) = t))
      totalLinks == SumCopies(pushed)
      distinct == Cardinality({pushed[i].text : i \in DOMAIN pushed})
      diversity == IF totalLinks > 0
                     THEN JsMul(JsDiv(Int2(distinct), Int2(totalLinks)), Int2(100))
                     ELSE Int2(0)
  IN [diversity |-> MathRound(diversity),
      types |-> [exactMatch |-> ofType("exactMatch"), brandName |-> ofType("brandName"),
                 generic |-> ofType("generic"), descriptive |-> ofType("descriptive")],
      recommendations |->
        [reduceGeneric |-> JsGt(JsDiv(Int2(ofType("generic")), Int2(totalLinks)), Fin(3, 10)),
         improveDiversity |-> JsLt(diversity, Int2(50))]]

\* anchor texts: none, blank, generic terms in either case and with margins,
\* and texts of 1, 9, 10, 20 and 21 characters
AnchorTexts ==
  {<<>>, <<" ">>, <<"H", "e", "r", "e">>, <<" ", "l", "i", "n", "k", " ">>,
   <<"c", "l", "i", "c", "k", " ", "h", "e", "r", "e">>,
   <<"a">>, [i \in 1..9 |-> "b"], [i \in 1..10 |-> "b"], [i \in 1..20 |-> "b"],
   [i \in 1..21 |-> "b"]}
CopyCounts == (1..MaxCopies) \cup {200, 201}

InitAnchors ==
  /\ AnalyzerIdle
  /\ call \in {Calling("analyzeAnchorText", [anchors |-> as]) :
                 as \in UNION {[1..m -> [text : AnchorTexts, copies : CopyCounts]] :
                                 m \in 0..MaxAnchorRuns}}

CallAnalyzeAnchorText == Returns("analyzeAnchorText", analyzeAnchorText(call.args.anchors))

NextAnchors == CallAnalyzeAnchorText

SpecAnchors == InitAnchors /\ [][NextAnchors]_vars

\* the anchors with a text, by run, and the bucket the claim gives a text
TextRuns(anchors) == {i \in DOMAIN anchors : Trim(anchors[i].text) # <<>>}
RECURSIVE CopiesIn(_, _)
CopiesIn(anchors, runs) ==
  IF runs = {} THEN 0
  ELSE LET i == CHOOSE j \in runs : TRUE
       IN anchors[i].copies + CopiesIn(anchors, runs \ {i})
BucketOf(text) ==
  LET t == Lower(Trim(text))
  IN CASE t \in GenericTerms -> "generic"
       [] t \notin GenericTerms /\ Len(t) < 10 -> "brandName"
       [] t \notin GenericTerms /\ Len(t) > 20 -> "descriptive"
       [] OTHER -> "exactMatch"
AnchorsClassified(anchors, ret) ==
  /\ \A b \in {"generic", "brandName", "descriptive", "exactMatch"} :
       ret.types[b] = CopiesIn(anchors, {i \in TextRuns(anchors) : BucketOf(anchors[i].text) = b})
  /\ ret.types.generic + ret.types.brandName + ret.types.descriptive + ret.types.exactMatch
       = CopiesIn(anchors, TextRuns(anchors))
DiversityRounded(anchors, ret) ==
  LET total == CopiesIn(anchors, TextRuns(anchors))
      distinct == Cardinality({Lower(Trim(anchors[i].text)) : i \in TextRuns(anchors)})
  IN ret.diversity = IF total = 0 THEN Int2(0) ELSE Int2((200 * distinct + total) \div (2 * total))

\* C21: diversity is round(distinct anchor texts / anchors * 100), 0 without
\* anchors and otherwise in (0, 100]; every anchor with a text is counted in
\* one bucket: generic term, else under 10 characters brandName, else over 20
\* descriptive, else exactMatch.
C21_AnchorDiversityAndTypes ==
  call.fn = "analyzeAnchorText" /\ call.returned =>
    LET anchors == call.args.anchors
        total == CopiesIn(anchors, TextRuns(anchors))
    IN /\ DiversityRounded(anchors, call.ret)
       /\ total > 0 => call.ret.diversity.n > 0 /\ call.ret.diversity.n <= 100
       /\ AnchorsClassified(anchors, call.ret)

\* C21 as amended: the same, with diversity in [0, 100], and above 0 exactly
\* when there are anchors and at most 200 of them per distinct text.
C21_AnchorDiversityUpToRounding ==
  call.fn = "analyzeAnchorText" /\ call.returned =>
    LET anchors == call.args.anchors
        total == CopiesIn(anchors, TextRuns(anchors))
        distinct == Cardinality({Lower(Trim(anchors[i].text)) : i \in TextRuns(anchors)})
    IN /\ DiversityRounded(anchors, call.ret)
       /\ call.ret.diversity.d = 1
       /\ call.ret.diversity.n >= 0 /\ call.ret.diversity.n <= 100
       /\ call.ret.diversity.n > 0 <=> total > 0 /\ total <= 200 * distinct
       /\ AnchorsClassified(anchors, call.ret)

\* 201 anchors "Here" and one of 20 characters: two buckets, diversity 1
C21_Witness ==
  /\ call.fn = "analyzeAnchorText" /\ call.returned
  /\ call.ret.types.generic = 201
  /\ call.ret.types.exactMatch = 1
  /\ call.ret.diversity = Int2(1)

(***************************************************************************)
(* analyzeMeta, called on pages whose title is at most MaxTitleLen         *)
(* characters and holds the keyword "a" once, or not at all.               *)
(***************************************************************************)
TitleWith(offset, length) == [i \in 1..length |-> IF i = offset + 1 THEN "A" ELSE "b"]
TitleCalls ==
  UNION {{[title |-> TitleWith(i, n), keyword |-> <<"a">>, offset |-> i] : i \in 0..(n - 1)} :
           n \in 1..MaxTitleLen}
    \cup {[title |-> TitleWith(n, n), keyword |-> <<"a">>, offset |-> -1] : n \in 0..MaxTitleLen}

InitTitle == AnalyzerIdle /\ call \in {Calling("analyzeMeta", a) : a \in TitleCalls}

CallAnalyzeMeta ==
  Returns("analyzeMeta",
          analyzeMeta([BaseDoc EXCEPT !.title = Some(call.args.title)], call.args.keyword, Undefined))

NextTitle == CallAnalyzeMeta

SpecTitle == InitTitle /\ [][NextTitle]_vars

\* C22: title.keywordPosition is 'none' exactly when title.hasKeyword is
\* false; with the keyword at offset i of a title of n characters it is
\* 'beginning' if i < 0.3n, 'end' if i > 0.7n and 'middle' otherwise.
C22_KeywordPositionBuckets ==
  call.fn = "analyzeMeta" /\ call.returned =>
    LET t == call.ret.title
        i == call.args.offset
        n == Len(call.args.title)
    IN /\ t.hasKeyword <=> i >= 0
       /\ t.keywordPosition = "none" <=> ~t.hasKeyword
       /\ t.hasKeyword =>
            t.keywordPosition = IF 10 * i < 3 * n THEN "beginning"
                                ELSE IF 10 * i > 7 * n THEN "end"
                                ELSE "middle"

(***************************************************************************)
(* analyzeURL, called on URLs whose last path segment is made of at most   *)
(* MaxSlugWords words joined by hyphens, with or without a query.          *)
(***************************************************************************)
SlugWords ==
  {<<"a">>, <<"t", "h", "e">>, <<"d", "a", "t", "a">>, <<"s", "e", "o">>,
   <<"b", "l", "o", "g">>, [i \in 1..99 |-> "x"], [i \in 1..100 |-> "x"]}
RECURSIVE JoinHyphen(_)
JoinHyphen(ws) ==
  IF Len(ws) = 1 THEN ws[1] ELSE ws[1] \o <<"-">> \o JoinHyphen(Tail(ws))
Slugs ==
  {JoinHyphen(ws) \o q : ws \in UNION {[1..m -> SlugWords] : m \in 1..MaxSlugWords},
                         q \in {<<>>, <<"?", "q">>, <<"&", "q">>}}
SiteRoot == <<"h", ":", "/", "/", "x", ".", "i", "o", "/">>

InitUrl ==
  /\ AnalyzerIdle
  /\ call \in {Calling("analyzeURL", [url |-> Some(SiteRoot \o slug), segment |-> slug, keyword |-> k]) :
                 slug \in Slugs, k \in {<<"s", "e", "o">>, <<"d", "a", "t", "a", " ", "s", "e", "o">>}}
            \cup {Calling("analyzeURL", [url |-> u, segment |-> <<>>, keyword |-> <<"s", "e", "o">>]) :
                    u \in {Undefined, Some(<<>>), Some(SiteRoot)}}

CallAnalyzeURL == Returns("analyzeURL", analyzeURL(call.args.url, call.args.keyword))

NextUrl == CallAnalyzeURL

SpecUrl == InitUrl /\ [][NextUrl]_vars

\* C23: hasStopWords is true exactly when one of the hyphen-separated words
\* of the last path segment is a stop word, and isSeoFriendly exactly when
\* the segment is shorter than 100 characters, has no stop word and no '?'
\* or '&'; without a URL isSeoFriendly = false, hasKeyword = false, length = 0.
C23_UrlStopWordsAndFriendliness ==
  call.fn = "analyzeURL" /\ call.returned =>
    LET segment == call.args.segment
        words == SplitChar(segment, "-")
        stopWord == \E i \in DOMAIN words : words[i] \in URL_STOP_WORDS
    IN IF OrEmpty(call.args.url) = <<>>
         THEN ~call.ret.isSeoFriendly /\ ~call.ret.hasKeyword /\ call.ret.length = 0
         ELSE /\ call.ret.hasStopWords <=> stopWord
              /\ call.ret.isSeoFriendly <=>
                   /\ Len(segment) < 100
                   /\ ~stopWord
                   /\ \A i \in DOMAIN segment : segment[i] \notin {"?", "&"}
              /\ call.ret.length = Len(segment)

(***************************************************************************)
(* analyzeAIOptimization on running text: up to MaxStatements statements,  *)
(* each a few words closed by '.', '!' or '?', separated by one space.     *)
(***************************************************************************)
StatementWords ==
  {<<"T", "h", "e", " ", "c", "a", "t", " ", "s", "a", "t">>,
   <<"T", "h", "e", " ", "d", "o", "g", " ", "r", "a", "n">>,
   <<"A", " ", "c", "a", "t">>,
   <<"t", "h", "e", " ", "d", "o", "g">>}
Statements == {[words |-> w, end |-> e] : w \in StatementWords, e \in SentenceEnd}
RECURSIVE JoinStatements(_)
JoinStatements(ss) ==
  IF ss = <<>> THEN <<>>
  ELSE ss[1].words \o <<ss[1].end>> \o
       (IF Len(ss) = 1 THEN <<>> ELSE <<" ">> \o JoinStatements(Tail(ss)))

InitStatements ==
  /\ AnalyzerIdle
  /\ call \in {Calling("analyzeAIOptimization", [statements |-> ss, textContent |-> JoinStatements(ss)]) :
                 ss \in UNION {[1..m -> Statements] : m \in 1..MaxStatements}}

CallAnalyzeAIOptimization ==
  Returns("analyzeAIOptimization",
          analyzeAIOptimization([BaseDoc EXCEPT !.nodes = <<Node("p", call.args.textContent, FALSE)>>],
                                call.args.textContent))

NextStatements == CallAnalyzeAIOptimization

SpecStatements == InitStatements /\ [][NextStatements]_vars

\* C24: declarativeSentences is the number of sentences of the text that
\* begin with an uppercase letter and are terminated by a period ("The cat
\* sat. The dog ran." yields 2), and the aiReadiness sub-score gains
\* min(25, 2 * declarativeSentences) from it.
C24_DeclarativeSentencesCounted ==
  call.fn = "analyzeAIOptimization" /\ call.returned =>
    LET ss == call.args.statements
        declarative == {i \in DOMAIN ss : ss[i].words[1] \in UpperCase /\ ss[i].end = "."}
    IN /\ call.ret.aiVisibility.declarativeSentences = Cardinality(declarative)
       /\ aiScoreOf(call.ret) = Int2(Min2(25, 2 * Cardinality(declarative)))

(***************************************************************************)
(* compareWithCompetitors and calculateCompetitiveScore.  The competitors  *)
(* are the five fixed results of analyzeSERP, so the averages and the      *)
(* common topics are constants.  A message is modelled by the dimension it *)
(* is about.                                                               *)
(***************************************************************************)
averageWordCount == 2440
averageImageCount == 10
averageHeadingCount == 8
CommonTopics ==
  <<"benefits", "examples", "tools", "tips", "mistakes", "best practices", "case studies", "faq">>

wordCountDelta(yourContent, avgWordCount) ==
  LET wordCountRatio == JsDiv(Int2(yourContent.wordCount), Int2(avgWordCount))
  IN IF JsGe(wordCountRatio, Int2(1)) THEN 20
     ELSE IF JsGe(wordCountRatio, Fin(4, 5)) THEN 15
     ELSE IF JsGe(wordCountRatio, Fin(3, 5)) THEN 10
     ELSE -10

imageDelta(yourContent, avgImageCount) ==
  LET imageRatio == JsDiv(Int2(yourContent.imageCount), Int2(Max2(1, avgImageCount)))
  IN IF JsGe(imageRatio, Int2(1)) THEN 15
     ELSE IF JsGe(imageRatio, Fin(7, 10)) THEN 10
     ELSE -5

headingDelta(yourContent, avgHeadingCount) ==
  LET headingRatio == JsDiv(Int2(yourContent.headingCount), Int2(Max2(1, avgHeadingCount)))
  IN IF JsGe(headingRatio, Int2(1)) THEN 15
     ELSE IF JsGe(headingRatio, Fin(4, 5)) THEN 10
     ELSE -5

readabilityDeltaAboveSeventy(yourContent) ==
  IF JsGe(yourContent.readabilityScore, Int2(70)) THEN 10 ELSE -5

readabilityDelta(yourContent) ==
  IF JsGe(yourContent.readabilityScore, Int2(70)) THEN 10
  ELSE IF JsGe(yourContent.readabilityScore, Int2(60)) THEN 5
  ELSE -5

keywordDensityDelta(yourContent) ==
  IF JsGe(yourContent.keywordDensity, Fin(1, 2)) /\ JsLe(yourContent.keywordDensity, Fin(5, 2))
  THEN 10 ELSE -5

calculateCompetitiveScore(yourContent, avgWordCount, avgImageCount, avgHeadingCount) ==
  LET score == 50 + wordCountDelta(yourContent, avgWordCount)
                  + imageDelta(yourContent, avgImageCount)
                  + headingDelta(yourContent, avgHeadingCount)
                  + readabilityDelta(yourContent)
                  + keywordDensityDelta(yourContent)
  IN Max2(0, Min2(100, score))

\* Math.max(1, Math.min(10, Math.round(11 - (yourScore / 10))))
competitivePositionOfFloor(yourScore) ==
  Max2(1, Min2(10, FloorDiv(110 - yourScore, 10)))

competitivePositionOf(yourScore) ==
  Max2(1, Min2(10, MathRound(JsSub(Int2(11), JsDiv(Int2(yourScore), Int2(10)))).n))

rankingPotentialOf(yourScore) ==
  IF yourScore >= 80 THEN "high" ELSE IF yourScore < 60 THEN "low" ELSE "medium"

compareWithCompetitors(yourContent, avgWordCount, avgImageCount, avgHeadingCount) ==
  LET verdicts ==
        <<[dimension |-> "wordCount", good |-> yourContent.wordCount >= avgWordCount,
           priority |-> "high", area |-> "Content Length"],
          [dimension |-> "imageCount", good |-> yourContent.imageCount >= avgImageCount,
           priority |-> "medium", area |-> "Visual Content"],
          [dimension |-> "headingCount", good |-> yourContent.headingCount >= avgHeadingCount,
           priority |-> "high", area |-> "Content Structure"],
          [dimension |-> "readability", good |-> ~JsLt(yourContent.readabilityScore, Int2(60)),
           priority |-> "medium", area |-> "Readability"]>>
      good == SelectSeq(verdicts, LAMBDA v : v.good)
      bad == SelectSeq(verdicts, LAMBDA v : ~v.good)
      yourScore == calculateCompetitiveScore(yourContent, avgWordCount, avgImageCount, avgHeadingCount)
  IN [competitivePosition |-> competitivePositionOf(yourScore),
      strengthsVsCompetitors |-> [i \in DOMAIN good |-> good[i].dimension],
      weaknessesVsCompetitors |-> [i \in DOMAIN bad |-> bad[i].dimension],
      contentGaps |-> CommonTopics,
      rankingPotential |-> rankingPotentialOf(yourScore),
      improvementAreas |-> [i \in DOMAIN bad |-> [priority |-> bad[i].priority, area |-> bad[i].area]]]

CompetitiveContents ==
  {[wordCount |-> w, imageCount |-> i, headingCount |-> h, keywordDensity |-> d, readabilityScore |-> r] :
     w \in {1, 1463, 1464, 1951, 1952, 2439, 2440},
     i \in {0, 6, 7, 9, 10},
     h \in {0, 6, 7, 8},
     d \in {Int2(0), Fin(1, 2), Fin(5, 2), Int2(3)},
     r \in {NaN, Int2(59), Int2(60), Int2(69), Int2(70)}}

InitCompetitors ==
  /\ AnalyzerIdle
  /\ call \in {Calling("compareWithCompetitors", [yourContent |-> c]) : c \in CompetitiveContents}

CallCompareWithCompetitors ==
  Returns("compareWithCompetitors",
          compareWithCompetitors(call.args.yourContent, averageWordCount, averageImageCount,
                                 averageHeadingCount))

NextCompetitors == CallCompareWithCompetitors

SpecCompetitors == InitCompetitors /\ [][NextCompetitors]_vars

\* the comparative scores of all the compared contents
CompetitiveScores ==
  {calculateCompetitiveScore(c, averageWordCount, averageImageCount, averageHeadingCount) :
     c \in CompetitiveContents}

\* C25: the comparative score is 50 plus one delta per dimension (word
\* count, images, headings, readability, keyword density) clamped to
\* [0,100]; competitivePosition is round(11 - score/10) clamped to 1..10, an
\* integer in 1..10 that never increases when the score increases;
\* rankingPotential is 'high' exactly when score >= 80, 'low' exactly when
\* score < 60 and 'medium' otherwise, so 'high' implies position <= 3 and
\* 'low' implies position >= 6.
C25_CompetitivePositionAndPotential ==
  call.fn = "compareWithCompetitors" /\ call.returned =>
    LET c == call.args.yourContent
        score == calculateCompetitiveScore(c, averageWordCount, averageImageCount, averageHeadingCount)
        position == call.ret.competitivePosition
        potential == call.ret.rankingPotential
    IN /\ score \in 0..100
       /\ \E dw \in {20, 15, 10, -10}, di \in {15, 10, -5}, dh \in {15, 10, -5},
             dr \in {10, 5, -5}, dk \in {10, -5} :
            score = Max2(0, Min2(100, 50 + dw + di + dh + dr + dk))
       /\ position \in 1..10
       /\ \E r \in 0..12 : /\ 10 * r <= 115 - score /\ 115 - score < 10 * r + 10
                            /\ position = Max2(1, Min2(10, r))
       /\ \A s \in CompetitiveScores :
            /\ s >= score => competitivePositionOf(s) <= position
            /\ s <= score => competitivePositionOf(s) >= position
       /\ potential = "high" <=> score >= 80
       /\ potential = "low" <=> score < 60
       /\ potential = "medium" <=> (score >= 60 /\ score < 80)
       /\ potential = "high" => position <= 3
       /\ potential = "low" => position >= 6

C25_Witness ==
  /\ call.fn = "compareWithCompetitors" /\ call.returned
  /\ call.ret.rankingPotential = "low"
  /\ call.ret.competitivePosition = 6
  /\ calculateCompetitiveScore(call.args.yourContent, averageWordCount, averageImageCount,
                               averageHeadingCount) = 55

ComparedDimensions == {"wordCount", "imageCount", "headingCount", "readability"}
Listed(list) == {list[i] : i \in DOMAIN list}
DimensionDelta(dimension, yourContent) ==
  CASE dimension = "wordCount" -> wordCountDelta(yourContent, averageWordCount)
    [] dimension = "imageCount" -> imageDelta(yourContent, averageImageCount)
    [] dimension = "headingCount" -> headingDelta(yourContent, averageHeadingCount)
    [] dimension = "readability" -> readabilityDelta(yourContent)

\* C29: for every finite input each of the four compared dimensions (word
\* count, images, headings, readability) is listed exactly once, as a
\* strength or as a weakness, so the two lists have 4 entries together;
\* there is one improvement area per weakness; and a dimension listed as a
\* strength did not lower the comparative score.
C29_EachDimensionStrengthOrWeakness ==
  /\ call.fn = "compareWithCompetitors" /\ call.returned
  /\ IsFinite(call.args.yourContent.readabilityScore)
  /\ IsFinite(call.args.yourContent.keywordDensity)
  => LET strengths == call.ret.strengthsVsCompetitors
         weaknesses == call.ret.weaknessesVsCompetitors
     IN /\ Len(strengths) + Len(weaknesses) = 4
        /\ Len(call.ret.improvementAreas) = Len(weaknesses)
        /\ \A d \in ComparedDimensions : (d \in Listed(strengths)) # (d \in Listed(weaknesses))
        /\ \A d \in Listed(strengths) : DimensionDelta(d, call.args.yourContent) > 0

C29_Witness ==
  /\ call.fn = "compareWithCompetitors" /\ call.returned
  /\ call.args.yourContent.readabilityScore = Int2(60)
  /\ call.ret.strengthsVsCompetitors = <<"imageCount", "readability">>
  /\ call.ret.weaknessesVsCompetitors = <<"wordCount", "headingCount">>
  /\ Len(call.ret.improvementAreas) = 2

\* C26: the metrics analyze hands to the SERP comparison are the
\* Content-Quality results of the same run: wordCount is
\* content.comprehensiveness.wordCount, readabilityScore is
\* content.readability.fleschScore and imageCount is
\* content.visualElements.imageCount, whatever the text (leading or
\* trailing whitespace included).
C26_SerpMetricsAreContentQualityResults ==
  \A r \in Results :
    /\ r.serp.yourContent.wordCount = r.content.comprehensiveness.wordCount
    /\ r.serp.yourContent.readabilityScore = r.content.readability.fleschScore
    /\ r.serp.yourContent.imageCount = r.content.visualElements.imageCount

\* C27: an external link is flagged isHighAuthority, and counted in
\* external.highAuthorityCount, only when a non-empty domain was extracted
\* from its href and that domain contains, or is contained in, an entry of
\* the allowlist; a link whose href yields no hostname is never
\* high-authority.
C27_HighAuthorityNeedsDomain ==
  call.fn = "analyzeLinks" /\ call.returned =>
    LET links == call.ret.external.links
        listed(domain) ==
          /\ domain # <<>>
          /\ \E authDomain \in HIGH_AUTHORITY_DOMAINS :
               Includes(domain, authDomain) \/ Includes(authDomain, domain)
    IN /\ \A i \in DOMAIN links : links[i].isHighAuthority => listed(links[i].domain)
       /\ call.ret.external.highAuthorityCount <=
            Cardinality({i \in DOMAIN links : listed(links[i].domain)})

(***************************************************************************)
(* calculateScore on arguments that differ only in the image analysis, the *)
(* anchor-text analysis, eeat.expertQuotes and eeat.originalPhotos.        *)
(***************************************************************************)
ScoredPages ==
  {ScoreArgs(KeywordsArg(t, t, FALSE, Int2(1)), LinksArg(i, 1, 1, 0), MetaArg(t, FALSE, t, FALSE, TRUE),
             ContentArg(r, TRUE, FALSE, 1, 1, 1, 1, 0), BaseImages,
             TechnicalArg(TRUE, "moderate", t, 1, 0), AiArg(t, FALSE, 1, FALSE)) :
     t \in BOOLEAN, i \in 0..1, r \in {NaN, Int2(33)}}
ImageAnalyses == {BaseImages} \cup {ImagesArg(MaxImages, a) : a \in 0..MaxImages}
AnchorAnalyses ==
  {analyzeAnchorText(<<>>),
   analyzeAnchorText(<<[text |-> <<"H", "e", "r", "e">>, copies |-> 1]>>)}

\* the calls that differ from args in nothing but those four inputs
Variants(args) ==
  {[a \in DOMAIN args \cup {"anchorText"} |->
      CASE a = "images" -> im
        [] a = "anchorText" -> at
        [] a = "technical" -> [args.technical EXCEPT !.eeat.expertQuotes = q,
                                                     !.eeat.originalPhotos = p]
        [] OTHER -> args[a]] :
     im \in ImageAnalyses, at \in AnchorAnalyses, q \in {0, 1, MaxCount}, p \in {0, 1, MaxCount}}

InitScoreInputs ==
  /\ AnalyzerIdle
  /\ call \in {Calling("calculateScore", v) : v \in UNION {Variants(a) : a \in ScoredPages}}

NextScoreInputs == CallCalculateScore

SpecScoreInputs == InitScoreInputs /\ [][NextScoreInputs]_vars

ScoreOf(args) ==
  calculateScore(args.keywords, args.links, args.meta, args.content, args.anchorText,
                 args.images, args.technical, args.aiOptimization)

\* C28: two calls of calculateScore whose arguments differ only in the image
\* analysis, the anchor-text analysis, eeat.expertQuotes and
\* eeat.originalPhotos return the same overall, seo, readability, authority,
\* technical and aiOptimization scores; of the breakdown only images and
\* eeat may differ.
C28_ScoresIgnoreImagesAnchorsAndEeatCounts ==
  call.fn = "calculateScore" /\ call.returned =>
    \A v \in Variants(call.args) :
      LET other == ScoreOf(v)
      IN /\ \A f \in CategoryScores : other[f] = call.ret[f]
         /\ \A f \in DOMAIN call.ret.breakdown \ {"images", "eeat"} :
              other.breakdown[f] = call.ret.breakdown[f]

\* a scored page with images, generic anchors, expert quotes and original
\* photos, whose image and E-E-A-T sub-scores differ from those of the same
\* page without them
C28_Witness ==
  /\ call.fn = "calculateScore" /\ call.returned
  /\ call.args.images.images.count > 0
  /\ call.args.anchorText.types.generic = 1
  /\ call.args.technical.eeat.expertQuotes > 0
  /\ call.args.technical.eeat.originalPhotos > 0
  /\ IsFinite(call.ret.overall) /\ call.ret.overall.n > 0
  /\ \E v \in Variants(call.args) :
       /\ ScoreOf(v).breakdown.images # call.ret.breakdown.images
       /\ ScoreOf(v).breakdown.eeat # call.ret.breakdown.eeat

(***************************************************************************)
(* The page component Home: the content typed in, the analysis displayed,  *)
(* the loading flag, the calls of analyzer.analyze that handleAnalyze is   *)
(* awaiting, the number of times handleAnalyze was called and the number   *)
(* of errors logged.  The handler is modelled on its own guard; the button *)
(* that calls it is disabled while loading or while the content is blank.  *)
(***************************************************************************)
PageContents == {<<>>, <<" ">>, <<"a">>, <<" ", "a">>}
Home ==
  [mounted |-> TRUE, content |-> <<>>, analysis |-> Null, loading |-> FALSE,
   pending |-> <<>>, handled |-> 0, errors |-> 0]
Without(seq, i) == SubSeq(seq, 1, i - 1) \o SubSeq(seq, i + 1, Len(seq))

InitPage ==
  /\ input = IdleInput
  /\ phrases = <<>>
  /\ maxCalls = 0
  /\ pc = "idle"
  /\ now = 0
  /\ cur = Fresh
  /\ outcomes = <<>>
  /\ call = NoCall
  /\ page = Home

\* onChange of the textarea: setContent(e.target.value)
SetContent(c) ==
  /\ page.mounted
  /\ c # page.content
  /\ page' = [page EXCEPT !.content = c]
  /\ UNCHANGED <<input, phrases, maxCalls, pc, now, cur, outcomes, call>>

\* handleAnalyze up to its await
HandleAnalyze ==
  /\ page.mounted
  /\ page.handled < MaxClicks
  /\ IF Trim(page.content) = <<>>
       THEN page' = [page EXCEPT !.handled = @ + 1]
       ELSE /\ Len(page.pending) < MaxPending
            /\ page' = [page EXCEPT !.handled = @ + 1, !.loading = TRUE,
                                    !.pending = Append(@, page.content)]
  /\ UNCHANGED <<input, phrases, maxCalls, pc, now, cur, outcomes, call>>

\* analyze resolves: setAnalysis(result), then finally setLoading(false)
AnalysisReturns(i) ==
  /\ page.mounted
  /\ i \in DOMAIN page.pending
  /\ page' = [page EXCEPT !.analysis = [content |-> page.pending[i]], !.loading = FALSE,
                          !.pending = Without(@, i)]
  /\ UNCHANGED <<input, phrases, maxCalls, pc, now, cur, outcomes, call>>

AnalysisThrowsAndClears(i) ==
  /\ page.mounted
  /\ i \in DOMAIN page.pending
  /\ page' = [page EXCEPT !.analysis = Null, !.errors = @ + 1, !.loading = FALSE,
                          !.pending = Without(@, i)]
  /\ UNCHANGED <<input, phrases, maxCalls, pc, now, cur, outcomes, call>>

\* analyze rejects: console.error, then finally setLoading(false)
AnalysisThrows(i) ==
  /\ page.mounted
  /\ i \in DOMAIN page.pending
  /\ page' = [page EXCEPT !.errors = @ + 1, !.loading = FALSE, !.pending = Without(@, i)]
  /\ UNCHANGED <<input, phrases, maxCalls, pc, now, cur, outcomes, call>>

\* the awaited promise settles
Settles == \E i \in 1..MaxPending : AnalysisReturns(i) \/ AnalysisThrows(i)

NextPage ==
  \/ \E c \in PageContents : SetContent(c)
  \/ HandleAnalyze
  \/ \E i \in 1..MaxPending : AnalysisReturns(i)
  \/ \E i \in 1..MaxPending : AnalysisThrows(i)

\* analyze is a finite computation, so the promise handleAnalyze awaits settles
SpecPage == InitPage /\ [][NextPage]_vars /\ WF_vars(Settles)

\* C30: handleAnalyze does nothing when the content is empty or
\* whitespace-only and otherwise sets loading to true; loading is always
\* eventually set back to false, whether the analysis returns or throws;
\* the displayed analysis is replaced only by a successfully returned
\* result, and when the analysis throws it is left unchanged.
C30_HandleAnalyzeAndLoading ==
  /\ [][HandleAnalyze =>
          IF Trim(page.content) = <<>>
            THEN /\ page'.content = page.content /\ page'.analysis = page.analysis
                 /\ page'.loading = page.loading /\ page'.pending = page.pending
                 /\ page'.errors = page.errors
            ELSE page'.loading /\ Len(page'.pending) = Len(page.pending) + 1]_vars
  /\ [][page'.analysis # page.analysis => \E i \in 1..MaxPending : AnalysisReturns(i)]_vars
  /\ [][(\E i \in 1..MaxPending : AnalysisThrows(i)) =>
          page'.analysis = page.analysis /\ ~page'.loading]_vars
  /\ (page.loading ~> ~page.loading)

\* an analysis is displayed, a later analysis has thrown, and handleAnalyze
\* was then called on blank content: the earlier analysis is still shown
C30_Witness ==
  /\ page.mounted
  /\ page.analysis = [content |-> <<"a">>]
  /\ page.errors = 1
  /\ page.handled = 3
  /\ Trim(page.content) = <<>>
  /\ ~page.loading
  /\ page.pending = <<>>

====
